---- MODULE Spec2Model ----
(***************************************************************************)
(* Model of the epicycle visualiser, in six specifications:                *)
(*   Spec        the mathematical core (src/utils/math_utils.py): the      *)
(*               Fourier epicycle generator, the epicycle kinematics       *)
(*               evaluators and the curve sampler;                         *)
(*   SpecCustom  the custom equation parser                                *)
(*               (EnhancedMainWindow.generate_custom_epicycles);           *)
(*   SpecCanvas  the animation canvas and the window handlers that change  *)
(*               it (src/ui/enhanced_main_window.py);                      *)
(*   SpecCatalog the concept loader (src/utils/concept_loader.py) and the  *)
(*               catalog file it reads;                                    *)
(*   SpecBuild   two calls of generate_curve_from_concept, the epicycle    *)
(*               dictionaries being objects the caller stores into;        *)
(*   SpecAnimation the frames of the animation, with the handlers that     *)
(*               reset the traces.                                         *)
(*                                                                         *)
(* Numbers.  The program computes in floating point; the model computes    *)
(* the same expressions in exact arithmetic:                               *)
(*   - a rational is a pair <<n, d>> in lowest terms with d > 0;           *)
(*   - an angle or a time is a rational number of quarter turns, so that   *)
(*     np.pi is 2 and 2*np.pi is 4 as an angle;                            *)
(*   - a radius is a scalar c / pi^k, the record [c |-> rational, k |-> k];*)
(*   - a coordinate is a "real": a finite sum of terms c / pi^k * atom     *)
(*     where atom is 1, cos(x) for an angle 0 < x < 1 quarter turn, or     *)
(*     exp(x - pi).  Cosines and sines of any angle are reduced to these   *)
(*     atoms by the symmetries of the circle, and are exact rationals at   *)
(*     every multiple of a quarter turn and at pi/3.  Two reals with the   *)
(*     same terms are the same number.                                     *)
(* Strings that the program searches or splits are sequences of            *)
(* one-character strings.                                                  *)
(***************************************************************************)
EXTENDS Integers, Sequences, FiniteSets, TLC

(***************************************************************************)
(* Bounds of the model.                                                    *)
(***************************************************************************)
MaxTerms == 9
MaxTPoints == 5
MaxTime == 5
MaxLen == 2
MaxSpinBox == 4
MaxCanvasPoints == 3

(***************************************************************************)
(* Strings.                                                                *)
(***************************************************************************)
StrEmpty == <<>>
StrFourierSeries == <<"F", "o", "u", "r", "i", "e", "r", "S", "e", "r", "i", "e", "s">>
StrParametricCurves == <<"P", "a", "r", "a", "m", "e", "t", "r", "i", "c", "C", "u", "r", "v", "e", "s">>
StrTaylorSeries == <<"T", "a", "y", "l", "o", "r", "S", "e", "r", "i", "e", "s">>
StrCustom == <<"C", "u", "s", "t", "o", "m">>
StrSquare == <<"S", "q", "u", "a", "r", "e">>
StrSawtooth == <<"S", "a", "w", "t", "o", "o", "t", "h">>
StrTriangle == <<"T", "r", "i", "a", "n", "g", "l", "e">>
StrLissajous == <<"L", "i", "s", "s", "a", "j", "o", "u", "s">>
StrEpicycloid == <<"E", "p", "i", "c", "y", "c", "l", "o", "i", "d">>
StrExponential == <<"E", "x", "p", "o", "n", "e", "n", "t", "i", "a", "l">>
StrSine == <<"S", "i", "n", "e">>
StrSquareWave == <<"S", "q", "u", "a", "r", "e", " ", "W", "a", "v", "e">>
StrSawtoothWave == <<"S", "a", "w", "t", "o", "o", "t", "h", " ", "W", "a", "v", "e">>
StrTriangleWave == <<"T", "r", "i", "a", "n", "g", "l", "e", " ", "W", "a", "v", "e">>
StrLissajousCurve == <<"L", "i", "s", "s", "a", "j", "o", "u", "s", " ", "C", "u", "r", "v", "e">>
StrExponentialFunction == <<"E", "x", "p", "o", "n", "e", "n", "t", "i", "a", "l", " ", "F", "u", "n", "c", "t", "i", "o", "n">>
StrSineFunction == <<"S", "i", "n", "e", " ", "F", "u", "n", "c", "t", "i", "o", "n">>
StrCosineFunction == <<"C", "o", "s", "i", "n", "e", " ", "F", "u", "n", "c", "t", "i", "o", "n">>
StrCircle == <<"C", "i", "r", "c", "l", "e">>

\* Python's `sub in s` on strings: s holds sub as a contiguous substring.
Contains(sub, s) ==
    \E i \in 0..(Len(s) - Len(sub)) :
        \A j \in 1..Len(sub) : s[i + j] = sub[j]

(***************************************************************************)
(* Exact rational arithmetic.                                              *)
(***************************************************************************)
Abs(a) == IF a < 0 THEN -a ELSE a

RECURSIVE GCD(_, _)
GCD(a, b) == IF b = 0 THEN a ELSE GCD(b, a % b)

\* The rational n/d in lowest terms with a positive denominator (d # 0).
RatNorm(n, d) ==
    LET g == GCD(Abs(n), Abs(d))
        s == IF d < 0 THEN -1 ELSE 1
    IN  <<(s * n) \div g, (s * d) \div g>>

RatInt(n) == <<n, 1>>

RatAdd(p, q) ==
    LET g == GCD(p[2], q[2])
        l == (p[2] \div g) * q[2]
    IN  RatNorm(p[1] * (l \div p[2]) + q[1] * (l \div q[2]), l)

RatNeg(p) == <<-p[1], p[2]>>

RatMul(p, q) ==
    LET g1 == GCD(Abs(p[1]), q[2])
        g2 == GCD(Abs(q[1]), p[2])
    IN  RatNorm((p[1] \div g1) * (q[1] \div g2), (p[2] \div g2) * (q[2] \div g1))

RatAbs(p) == <<Abs(p[1]), p[2]>>

RatLess(p, q) == p[1] * q[2] < q[1] * p[2]

(***************************************************************************)
(* Angles, in quarter turns.                                               *)
(***************************************************************************)
HalfPi == 1
Pi == 2
TwoPi == 4

(***************************************************************************)
(* Scalars c / pi^k (radii and amplitudes).                                *)
(***************************************************************************)
Scalar(c, k) == [c |-> c, k |-> k]

ScalarInt(n) == Scalar(RatInt(n), 0)

ScalarAbs(s) == Scalar(RatAbs(s.c), s.k)

ScalarPositive(s) == s.c[1] > 0

(***************************************************************************)
(* Reals: finite sums of terms c / pi^k * atom.                            *)
(***************************************************************************)
AtomOne == [f |-> "one", x |-> <<0, 1>>]

AtomCos(x) == [f |-> "cos", x |-> x]

AtomExp(x) == [f |-> "exp", x |-> x]

Zero == {}

\* The coefficient of the term of real r with pi power k and atom a.
CoefOf(r, k, a) ==
    IF \E t \in r : t.k = k /\ t.a = a
    THEN (CHOOSE t \in r : t.k = k /\ t.a = a).c
    ELSE <<0, 1>>

RealAdd(r, s) ==
    LET keys == {[k |-> t.k, a |-> t.a] : t \in r \cup s}
        sum(key) == RatAdd(CoefOf(r, key.k, key.a), CoefOf(s, key.k, key.a))
    IN  {[k |-> key.k, a |-> key.a, c |-> sum(key)] :
            key \in {q \in keys : sum(q)[1] # 0}}

RealNeg(r) == {[k |-> t.k, a |-> t.a, c |-> RatNeg(t.c)] : t \in r}

RealSub(r, s) == RealAdd(r, RealNeg(s))

\* scalar * (c * atom), the product of a radius and a cosine or sine value.
RealMul(s, v) ==
    IF s.c[1] = 0 \/ v.c[1] = 0 THEN Zero
    ELSE {[k |-> s.k, a |-> v.a, c |-> RatMul(s.c, v.c)]}

\* np.cos of an angle x (a rational number of quarter turns), as c * atom.
Cos(x) ==
    LET d == x[2]
        m == x[1] % (TwoPi * d)
        q == m \div d
        r == m % d
    IN  IF r = 0
        THEN [c |-> RatInt(CASE q = 0 -> 1 [] q = 1 -> 0 [] q = 2 -> -1 [] q = 3 -> 0),
              a |-> AtomOne]
        ELSE LET sgn == IF q = 0 \/ q = 3 THEN 1 ELSE -1
                 y == IF q = 0 \/ q = 2 THEN <<r, d>> ELSE <<d - r, d>>
             IN  IF y = <<2, 3>>
                 THEN [c |-> <<sgn, 2>>, a |-> AtomOne]
                 ELSE [c |-> RatInt(sgn), a |-> AtomCos(y)]

\* np.sin of an angle: sin(x) = cos(x - pi/2).
Sin(x) == Cos(RatAdd(x, RatInt(-HalfPi)))

\* np.exp(x - np.pi) for a time x.
ExpShifted(x) ==
    IF x = RatInt(Pi) THEN [c |-> RatInt(1), a |-> AtomOne]
    ELSE [c |-> RatInt(1), a |-> AtomExp(x)]

\* math.factorial
RECURSIVE Factorial(_)
Factorial(n) == IF n <= 1 THEN 1 ELSE n * Factorial(n - 1)

\* Mutant of Linspace: the last sample is dropped.
LinspaceDropLast(start, stop, num) ==
    [i \in 1..(num - 1) |->
        RatAdd(start, RatMul(RatAdd(stop, RatNeg(start)), RatNorm(i - 1, num - 1)))]

\* Mutant of Linspace: endpoint=False, the step is (stop - start) / num.
LinspaceNoEndpoint(start, stop, num) ==
    [i \in 1..num |->
        RatAdd(start, RatMul(RatAdd(stop, RatNeg(start)), RatNorm(i - 1, num)))]

\* np.linspace(start, stop, num) with the default endpoint=True.
Linspace(start, stop, num) ==
    [i \in 1..num |->
        IF num = 1 THEN start
        ELSE RatAdd(start, RatMul(RatAdd(stop, RatNeg(start)), RatNorm(i - 1, num - 1)))]

(***************************************************************************)
(* Epicycles: {'radius', 'frequency', 'phase', 'direction'} dictionaries.  *)
(* radius is a scalar, frequency a rational, phase a rational number of    *)
(* quarter turns, direction an integer.                                    *)
(***************************************************************************)
Epicycle(radius, frequency, phase, direction) ==
    [radius |-> radius, frequency |-> frequency, phase |-> phase,
     direction |-> direction]

\* Python's b ** e for an integer base and an exponent e >= 0.
RECURSIVE IntPow(_, _)
IntPow(b, e) == IF e <= 0 THEN 1 ELSE b * IntPow(b, e - 1)

\* Python's range(start, stop, step) for step > 0, as a sequence.
RECURSIVE Range(_, _, _)
Range(start, stop, step) ==
    IF start >= stop THEN <<>>
    ELSE <<start>> \o Range(start + step, stop, step)

\* Python's min
Min(a, b) == IF a < b THEN a ELSE b

\* Mutant of SquareEpicycle: 4 / np.pi * n in place of 4 / (np.pi * n).
SquareEpicyclePrecedence(n) ==
    Epicycle(Scalar(RatInt(4 * n), 1), RatInt(n), RatInt(0), 1)

\* The epicycle appended for harmonic n of the square wave.
SquareEpicycle(n) ==
    LET amplitude == Scalar(RatNorm(4, n), 1)
    IN  Epicycle(amplitude, RatInt(n), RatInt(0), 1)

\* Mutant of SawtoothEpicycle: the signed amplitude is stored as the radius
\* and the phase is left at 0.
SawtoothEpicycleSigned(n) ==
    LET amplitude == Scalar(RatMul(RatNorm(2, n), RatInt(IntPow(-1, n + 1))), 1)
    IN  Epicycle(amplitude, RatInt(n), RatInt(0), 1)

\* The epicycle appended for harmonic n of the sawtooth wave.
SawtoothEpicycle(n) ==
    LET amplitude == Scalar(RatMul(RatNorm(2, n), RatInt(IntPow(-1, n + 1))), 1)
    IN  Epicycle(ScalarAbs(amplitude), RatInt(n),
                 IF ScalarPositive(amplitude) THEN RatInt(0) ELSE RatInt(Pi), 1)

\* Mutant of TriangleEpicycle: the amplitude falls as 1/n, not as 1/n^2.
TriangleEpicycleLinear(n) ==
    LET amplitude == Scalar(RatMul(RatNorm(8, n),
                                   RatInt(IntPow(-1, (n - 1) \div 2))), 2)
    IN  Epicycle(ScalarAbs(amplitude), RatInt(n),
                 IF ScalarPositive(amplitude) THEN RatInt(0) ELSE RatInt(Pi), 1)

\* The epicycle appended for harmonic n of the triangle wave.
TriangleEpicycle(n) ==
    LET amplitude == Scalar(RatMul(RatNorm(8, n * n),
                                   RatInt(IntPow(-1, (n - 1) \div 2))), 2)
    IN  Epicycle(ScalarAbs(amplitude), RatInt(n),
                 IF ScalarPositive(amplitude) THEN RatInt(0) ELSE RatInt(Pi), 1)

\* Mutant of GenerateFourierEpicycles: a name matching no keyword gets a unit
\* epicycle.
GenerateFourierEpicyclesWithDefault(concept_name, n_terms) ==
    IF Contains(StrSquare, concept_name)
    THEN LET harmonics == Range(1, n_terms + 1, 2)
         IN  [i \in 1..Len(harmonics) |-> SquareEpicycle(harmonics[i])]
    ELSE IF Contains(StrSawtooth, concept_name)
    THEN LET harmonics == Range(1, n_terms + 1, 1)
         IN  [i \in 1..Len(harmonics) |-> SawtoothEpicycle(harmonics[i])]
    ELSE IF Contains(StrTriangle, concept_name)
    THEN LET harmonics == Range(1, n_terms + 1, 2)
         IN  [i \in 1..Len(harmonics) |-> TriangleEpicycle(harmonics[i])]
    ELSE <<Epicycle(ScalarInt(1), RatInt(1), RatInt(0), 1)>>

\* Mutant of GenerateFourierEpicycles: 'Sawtooth' is tested before 'Square'.
GenerateFourierEpicyclesSawtoothFirst(concept_name, n_terms) ==
    IF Contains(StrSawtooth, concept_name)
    THEN LET harmonics == Range(1, n_terms + 1, 1)
         IN  [i \in 1..Len(harmonics) |-> SawtoothEpicycle(harmonics[i])]
    ELSE IF Contains(StrSquare, concept_name)
    THEN LET harmonics == Range(1, n_terms + 1, 2)
         IN  [i \in 1..Len(harmonics) |-> SquareEpicycle(harmonics[i])]
    ELSE IF Contains(StrTriangle, concept_name)
    THEN LET harmonics == Range(1, n_terms + 1, 2)
         IN  [i \in 1..Len(harmonics) |-> TriangleEpicycle(harmonics[i])]
    ELSE <<>>

\* ConceptMath.generate_fourier_epicycles(concept_name, n_terms)
GenerateFourierEpicycles(concept_name, n_terms) ==
    IF Contains(StrSquare, concept_name)
    THEN LET harmonics == Range(1, n_terms + 1, 2)
         IN  [i \in 1..Len(harmonics) |-> SquareEpicycle(harmonics[i])]
    ELSE IF Contains(StrSawtooth, concept_name)
    THEN LET harmonics == Range(1, n_terms + 1, 1)
         IN  [i \in 1..Len(harmonics) |-> SawtoothEpicycle(harmonics[i])]
    ELSE IF Contains(StrTriangle, concept_name)
    THEN LET harmonics == Range(1, n_terms + 1, 2)
         IN  [i \in 1..Len(harmonics) |-> TriangleEpicycle(harmonics[i])]
    ELSE <<>>

\* angle = direction * freq * t + phase
Angle(epicycle, t) ==
    RatAdd(RatMul(RatMul(RatInt(epicycle.direction), epicycle.frequency), t),
           epicycle.phase)

\* The accumulators (x, y) of calculate_epicycle_position after the first i
\* iterations of its loop.
RECURSIVE PositionLoop(_, _, _)
PositionLoop(epicycles, t, i) ==
    IF i = 0 THEN <<Zero, Zero>>
    ELSE LET prev == PositionLoop(epicycles, t, i - 1)
             epicycle == epicycles[i]
             angle == Angle(epicycle, t)
         IN  <<RealAdd(prev[1], RealMul(epicycle.radius, Cos(angle))),
               RealAdd(prev[2], RealMul(epicycle.radius, Sin(angle)))>>

\* Mutant of CalculateEpicyclePosition: the angle leaves out the direction.
RECURSIVE PositionLoopNoDirection(_, _, _)
PositionLoopNoDirection(epicycles, t, i) ==
    IF i = 0 THEN <<Zero, Zero>>
    ELSE LET prev == PositionLoopNoDirection(epicycles, t, i - 1)
             epicycle == epicycles[i]
             angle == RatAdd(RatMul(epicycle.frequency, t), epicycle.phase)
         IN  <<RealAdd(prev[1], RealMul(epicycle.radius, Cos(angle))),
               RealAdd(prev[2], RealMul(epicycle.radius, Sin(angle)))>>

CalculateEpicyclePositionNoDirection(epicycles, t) ==
    PositionLoopNoDirection(epicycles, t, Len(epicycles))

\* ConceptMath.calculate_epicycle_position(epicycles, t)
CalculateEpicyclePosition(epicycles, t) ==
    PositionLoop(epicycles, t, Len(epicycles))

\* The state (x, y, positions) of get_epicycle_chain_positions after the
\* first i iterations of its loop.
RECURSIVE ChainLoop(_, _, _)
ChainLoop(epicycles, t, i) ==
    IF i = 0 THEN [x |-> Zero, y |-> Zero, positions |-> << <<Zero, Zero>> >>]
    ELSE LET prev == ChainLoop(epicycles, t, i - 1)
             epicycle == epicycles[i]
             angle == Angle(epicycle, t)
             x == RealAdd(prev.x, RealMul(epicycle.radius, Cos(angle)))
             y == RealAdd(prev.y, RealMul(epicycle.radius, Sin(angle)))
         IN  [x |-> x, y |-> y, positions |-> Append(prev.positions, <<x, y>>)]

\* Mutant of GetEpicycleChainPositions: each arm's tip is appended on its
\* own, not added to the tip of the arm before it.
GetEpicycleChainPositionsNotChained(epicycles, t) ==
    << <<Zero, Zero>> >> \o
    [i \in 1..Len(epicycles) |->
        <<RealMul(epicycles[i].radius, Cos(Angle(epicycles[i], t))),
          RealMul(epicycles[i].radius, Sin(Angle(epicycles[i], t)))>>]

\* ConceptMath.get_epicycle_chain_positions(epicycles, t)
GetEpicycleChainPositions(epicycles, t) ==
    ChainLoop(epicycles, t, Len(epicycles)).positions

\* A bare cosine, sine or exponential value as a real.
Real(v) == RealMul(ScalarInt(1), v)

\* dict.get(key, default)
Get(dict, key, default) == IF key \in DOMAIN dict THEN dict[key] ELSE default

\* Mutant of FourierCurve: the horizontal component is collected as the value.
FourierCurveCollectsX(concept_name, n_terms, t) ==
    LET epicycles == GenerateFourierEpicycles(concept_name, n_terms)
    IN  [x_curve |-> [i \in 1..Len(t) |-> t[i]],
         y_curve |-> [i \in 1..Len(t) |-> CalculateEpicyclePosition(epicycles, t[i])[1]],
         epicycles |-> epicycles]

\* The FourierSeries branch of generate_curve_from_concept.
FourierCurve(concept_name, n_terms, t) ==
    LET epicycles == GenerateFourierEpicycles(concept_name, n_terms)
    IN  [x_curve |-> [i \in 1..Len(t) |-> t[i]],
         y_curve |-> [i \in 1..Len(t) |-> CalculateEpicyclePosition(epicycles, t[i])[2]],
         epicycles |-> epicycles]

\* The 'Lissajous' branch of generate_curve_from_concept.
LissajousCurve(t) ==
    LET a == 3
        b == 2
        delta == RatInt(HalfPi)
        A == 1
        B == 1
    IN  [x_curve |-> [i \in 1..Len(t) |->
                        RealMul(ScalarInt(A), Sin(RatAdd(RatMul(RatInt(a), t[i]), delta)))],
         y_curve |-> [i \in 1..Len(t) |->
                        RealMul(ScalarInt(B), Sin(RatMul(RatInt(b), t[i])))],
         epicycles |-> <<Epicycle(ScalarInt(A), RatInt(a), delta, 1),
                         Epicycle(ScalarInt(B), RatInt(b), RatInt(0), 1)>>]

\* Mutant of EpicycloidCurve: ratio = R / r.
EpicycloidCurveRatio(t) ==
    LET R == 3
        r == 1
        ratio == RatNorm(R, r)
    IN  [x_curve |-> [i \in 1..Len(t) |->
                        RealSub(RealMul(ScalarInt(R + r), Cos(t[i])),
                                RealMul(ScalarInt(r), Cos(RatMul(ratio, t[i]))))],
         y_curve |-> [i \in 1..Len(t) |->
                        RealSub(RealMul(ScalarInt(R + r), Sin(t[i])),
                                RealMul(ScalarInt(r), Sin(RatMul(ratio, t[i]))))],
         epicycles |-> <<Epicycle(ScalarInt(R + r), RatInt(1), RatInt(0), 1),
                         Epicycle(ScalarInt(r), ratio, RatInt(Pi), 1)>>]

\* The 'Epicycloid' branch of generate_curve_from_concept.
EpicycloidCurve(t) ==
    LET R == 3
        r == 1
        ratio == RatNorm(R + r, r)
    IN  [x_curve |-> [i \in 1..Len(t) |->
                        RealSub(RealMul(ScalarInt(R + r), Cos(t[i])),
                                RealMul(ScalarInt(r), Cos(RatMul(ratio, t[i]))))],
         y_curve |-> [i \in 1..Len(t) |->
                        RealSub(RealMul(ScalarInt(R + r), Sin(t[i])),
                                RealMul(ScalarInt(r), Sin(RatMul(ratio, t[i]))))],
         epicycles |-> <<Epicycle(ScalarInt(R + r), RatInt(1), RatInt(0), 1),
                         Epicycle(ScalarInt(r), ratio, RatInt(Pi), 1)>>]

\* The default ParametricCurves branch: a simple circle.
CircleCurve(t) ==
    [x_curve |-> [i \in 1..Len(t) |-> Real(Cos(t[i]))],
     y_curve |-> [i \in 1..Len(t) |-> Real(Sin(t[i]))],
     epicycles |-> <<Epicycle(ScalarInt(1), RatInt(1), RatInt(0), 1)>>]

\* Mutant of ExponentialEpicycle: the frequency is n, the power of the term.
ExponentialEpicycleAtPower(n) ==
    LET coeff == RatNorm(1, Factorial(n))
    IN  Epicycle(Scalar(RatMul(coeff, <<1, 2>>), 0), RatInt(n), RatInt(0), 1)

\* The epicycle appended for term n of the exponential Taylor series.
ExponentialEpicycle(n) ==
    LET coeff == RatNorm(1, Factorial(n))
    IN  Epicycle(Scalar(RatMul(coeff, <<1, 2>>), 0), RatInt(n + 1), RatInt(0), 1)

\* The 'Exponential' branch of generate_curve_from_concept.
ExponentialCurve(n_terms, t) ==
    LET terms == Range(0, Min(n_terms, 8), 1)
    IN  [x_curve |-> [i \in 1..Len(t) |-> t[i]],
         y_curve |-> [i \in 1..Len(t) |-> Real(ExpShifted(t[i]))],
         epicycles |-> [i \in 1..Len(terms) |-> ExponentialEpicycle(terms[i])]]

\* Mutant of SineEpicycle: the sign of the series starts negative.
SineEpicycleSignFlipped(n) ==
    LET power == 2 * n + 1
        sign == IntPow(-1, n + 1)
        coeff == RatNorm(sign, Factorial(power))
    IN  Epicycle(Scalar(RatMul(RatAbs(coeff), RatInt(2)), 0), RatInt(power),
                 IF coeff[1] > 0 THEN RatInt(0) ELSE RatInt(Pi), 1)

\* The epicycle appended for term n of the sine Taylor series.
SineEpicycle(n) ==
    LET power == 2 * n + 1
        sign == IntPow(-1, n)
        coeff == RatNorm(sign, Factorial(power))
    IN  Epicycle(Scalar(RatMul(RatAbs(coeff), RatInt(2)), 0), RatInt(power),
                 IF coeff[1] > 0 THEN RatInt(0) ELSE RatInt(Pi), 1)

\* The 'Sine' branch of generate_curve_from_concept.
SineCurve(n_terms, t) ==
    LET terms == Range(0, Min(n_terms, 6), 1)
    IN  [x_curve |-> [i \in 1..Len(t) |-> t[i]],
         y_curve |-> [i \in 1..Len(t) |-> Real(Sin(t[i]))],
         epicycles |-> [i \in 1..Len(terms) |-> SineEpicycle(terms[i])]]

\* Mutant of DefaultCurve: no epicycle is returned.
DefaultCurveNoEpicycle(t) ==
    [x_curve |-> [i \in 1..Len(t) |-> t[i]],
     y_curve |-> [i \in 1..Len(t) |-> Real(Sin(t[i]))],
     epicycles |-> <<>>]

\* The default case of the TaylorSeries branch and of the whole function:
\* a simple sine wave.
DefaultCurve(t) ==
    [x_curve |-> [i \in 1..Len(t) |-> t[i]],
     y_curve |-> [i \in 1..Len(t) |-> Real(Sin(t[i]))],
     epicycles |-> <<Epicycle(ScalarInt(1), RatInt(1), RatInt(0), 1)>>]

\* The time parameter of generate_curve_from_concept:
\* t = np.linspace(0, 2 * np.pi, t_points)
TimeGrid(t_points) == Linspace(RatInt(0), RatInt(TwoPi), t_points)

\* generate_curve_from_concept(concept, n_terms, t_points)
GenerateCurveFromConcept(concept, n_terms, t_points) ==
    LET concept_name == Get(concept, "name", StrEmpty)
        category == Get(concept, "category", StrEmpty)
        t == TimeGrid(t_points)
    IN  IF category = StrFourierSeries
        THEN FourierCurve(concept_name, n_terms, t)
        ELSE IF category = StrParametricCurves
        THEN IF Contains(StrLissajous, concept_name) THEN LissajousCurve(t)
             ELSE IF Contains(StrEpicycloid, concept_name) THEN EpicycloidCurve(t)
             ELSE CircleCurve(t)
        ELSE IF category = StrTaylorSeries
        THEN IF Contains(StrExponential, concept_name) THEN ExponentialCurve(n_terms, t)
             ELSE IF Contains(StrSine, concept_name) THEN SineCurve(n_terms, t)
             ELSE DefaultCurve(t)
        ELSE DefaultCurve(t)

(***************************************************************************)
(* Custom equations: EnhancedMainWindow.generate_custom_epicycles.         *)
(* A string is a sequence of characters; a float read from a literal is    *)
(* the exact rational the literal writes.                                  *)
(***************************************************************************)
StrSin == <<"s", "i", "n">>

StrCos == <<"c", "o", "s">>

StrOpen == <<"(">>

StrClose == <<"t", ")">>

StrStar == <<"*">>

Digits == <<"0", "1", "2", "3", "4", "5", "6", "7", "8", "9">>

\* \d
IsDigit(ch) == \E i \in 1..Len(Digits) : Digits[i] = ch

DigitValue(ch) == (CHOOSE i \in 1..Len(Digits) : Digits[i] = ch) - 1

\* [\d\.]
IsNumChar(ch) == IsDigit(ch) \/ ch = "."

\* ([\d\.]*) from index i: the index after the longest run of digits and
\* dots.  No shorter run can match, since what follows the group is never a
\* digit or a dot.
RECURSIVE RunEnd(_, _)
RunEnd(s, i) ==
    IF i <= Len(s) /\ IsNumChar(s[i]) THEN RunEnd(s, i + 1) ELSE i

\* The literal lit stands at index i of s.
HasAt(s, i, lit) ==
    /\ i + Len(lit) - 1 <= Len(s)
    /\ SubSeq(s, i, i + Len(lit) - 1) = lit

\* \*? from index i
SkipStar(s, i) == IF HasAt(s, i, StrStar) THEN i + 1 ELSE i

\* The pattern ([\d\.]*)\*?fn\(([\d\.]*)\*?t\) matched at index i of s.
MatchAt(s, i, fn) ==
    LET j == RunEnd(s, i)
        j2 == SkipStar(s, j)
        k == j2 + Len(fn) + Len(StrOpen)
        k2 == RunEnd(s, k)
        k3 == SkipStar(s, k2)
    IN  IF HasAt(s, j2, fn \o StrOpen) /\ HasAt(s, k3, StrClose)
        THEN [matched |-> TRUE,
              groups |-> <<SubSeq(s, i, j - 1), SubSeq(s, k, k2 - 1)>>,
              stop |-> k3 + Len(StrClose)]
        ELSE [matched |-> FALSE, groups |-> <<>>, stop |-> i]

\* re.findall(pattern, s): the groups of the leftmost matches from pos on,
\* each search resuming where the previous match stopped.
RECURSIVE FindAll(_, _, _)
FindAll(s, pos, fn) ==
    IF pos > Len(s) THEN <<>>
    ELSE LET m == MatchAt(s, pos, fn)
         IN  IF m.matched THEN <<m.groups>> \o FindAll(s, m.stop, fn)
             ELSE FindAll(s, pos + 1, fn)

CountOf(ch, str) == Cardinality({i \in 1..Len(str) : str[i] = ch})

\* The integer the digits of str write, its dots skipped.
RECURSIVE DigitsToInt(_, _)
DigitsToInt(str, acc) ==
    IF str = <<>> THEN acc
    ELSE IF Head(str) = "." THEN DigitsToInt(Tail(str), acc)
    ELSE DigitsToInt(Tail(str), 10 * acc + DigitValue(Head(str)))

\* float(str) raises ValueError: str, made of digits and dots, has no digit
\* or more than one dot.
FloatRaises(str) ==
    \/ CountOf(".", str) > 1
    \/ \A i \in 1..Len(str) : ~IsDigit(str[i])

\* Mutant of Float: the decimal point is ignored.
FloatIgnoringDot(str) == RatInt(DigitsToInt(str, 0))

\* float(str) for a str on which it does not raise.
Float(str) ==
    LET dot == IF CountOf(".", str) = 0 THEN Len(str)
               ELSE CHOOSE i \in 1..Len(str) : str[i] = "."
    IN  RatNorm(DigitsToInt(str, 0), IntPow(10, Len(str) - dot))

\* The epicycle appended for a sin match (coeff, freq).
SinMatchEpicycle(coeff, freq) ==
    LET amplitude == IF coeff # <<>> THEN Float(coeff) ELSE RatInt(1)
        frequency == IF freq # <<>> THEN Float(freq) ELSE RatInt(1)
    IN  Epicycle(Scalar(RatAbs(amplitude), 0), frequency,
                 IF ~RatLess(amplitude, RatInt(0)) THEN RatInt(0) ELSE RatInt(Pi),
                 1)

\* The epicycle appended for a cos match (coeff, freq).
CosMatchEpicycle(coeff, freq) ==
    LET amplitude == IF coeff # <<>> THEN Float(coeff) ELSE RatInt(1)
        frequency == IF freq # <<>> THEN Float(freq) ELSE RatInt(1)
    IN  Epicycle(Scalar(RatAbs(amplitude), 0), frequency,
                 IF ~RatLess(amplitude, RatInt(0)) THEN RatInt(HalfPi)
                 ELSE RatNorm(3 * Pi, 2),
                 1)

\* Mutant of OrDefault: no default is appended.
OrDefaultNothing(list) == list

\* "if not epicycles": a list with no epicycle gets the default one.
OrDefault(list) ==
    IF list = <<>> THEN <<Epicycle(ScalarInt(1), RatInt(1), RatInt(0), 1)>>
    ELSE list

\* list[:n]
Slice(list, n) ==
    LET stop == IF n >= 0 THEN Min(n, Len(list))
                ELSE IF Len(list) + n > 0 THEN Len(list) + n ELSE 0
    IN  SubSeq(list, 1, stop)

\* Mutant of GenerateCustomEpicycles: the cosine terms are appended first.
GenerateCustomEpicyclesCosineFirst(equation_str, n_terms) ==
    LET sin_matches == FindAll(equation_str, 1, StrSin)
        cos_matches == FindAll(equation_str, 1, StrCos)
        matches == sin_matches \o cos_matches
        raises == \E i \in 1..Len(matches), g \in 1..2 :
                      matches[i][g] # <<>> /\ FloatRaises(matches[i][g])
        sines == [i \in 1..Len(sin_matches) |->
                     SinMatchEpicycle(sin_matches[i][1], sin_matches[i][2])]
        cosines == [i \in 1..Len(cos_matches) |->
                       CosMatchEpicycle(cos_matches[i][1], cos_matches[i][2])]
    IN  IF raises THEN [raised |-> TRUE, epicycles |-> <<>>]
        ELSE [raised |-> FALSE,
              epicycles |-> Slice(OrDefault(cosines \o sines), n_terms)]

\* EnhancedMainWindow.generate_custom_epicycles(equation_str, n_terms): the
\* list returned, or raised = TRUE when a float() call raises ValueError.
GenerateCustomEpicycles(equation_str, n_terms) ==
    LET sin_matches == FindAll(equation_str, 1, StrSin)
        cos_matches == FindAll(equation_str, 1, StrCos)
        matches == sin_matches \o cos_matches
        raises == \E i \in 1..Len(matches), g \in 1..2 :
                      matches[i][g] # <<>> /\ FloatRaises(matches[i][g])
        sines == [i \in 1..Len(sin_matches) |->
                     SinMatchEpicycle(sin_matches[i][1], sin_matches[i][2])]
        cosines == [i \in 1..Len(cos_matches) |->
                       CosMatchEpicycle(cos_matches[i][1], cos_matches[i][2])]
    IN  IF raises THEN [raised |-> TRUE, epicycles |-> <<>>]
        ELSE [raised |-> FALSE,
              epicycles |-> Slice(OrDefault(sines \o cosines), n_terms)]

(***************************************************************************)
(* The canvas: EnhancedAnimationCanvas.  A phase on the canvas is a producer *)
(* phase, in quarter turns, plus the phase offset of the slider, in radians. *)
(***************************************************************************)
\* Mutant of ScalarScale: the radius is scaled by the factor less one.
ScalarScaleLessOne(s, factor) == Scalar(RatMul(s.c, RatAdd(factor, RatInt(-1))), s.k)

\* epicycle['radius'] *= factor
ScalarScale(s, factor) == Scalar(RatMul(s.c, factor), s.k)

\* phase + offset
CanvasPhase(phase, offset) == [quarter_turns |-> phase, radians |-> offset]

\* An epicycle as a producer returned it, held by the canvas.
OnCanvas(epicycle) ==
    Epicycle(epicycle.radius, epicycle.frequency,
             CanvasPhase(epicycle.phase, RatInt(0)), epicycle.direction)

\* The parameter adjustments of set_concept_data on one epicycle.
Adjusted(epicycle, amplitude, frequency, offset) ==
    Epicycle(ScalarScale(epicycle.radius, amplitude),
             RatMul(epicycle.frequency, frequency),
             CanvasPhase(epicycle.phase, offset),
             epicycle.direction)

\* Mutant of EmptyTraces: one buffer fewer than asked.
EmptyTracesOneLess(n) == [i \in 1..(n - 1) |-> <<>>]

\* [[] for _ in range(n)]
EmptyTraces(n) == [i \in 1..n |-> <<>>]

\* A time of the canvas, rat + pi * np.pi: the frames add time_step, a
\* decimal number, and save_gif sets a fraction of max_time, a multiple of pi.
Time(rat, pi) == [rat |-> rat, pi |-> pi]

TimeZero == Time(RatInt(0), RatInt(0))

\* self.time_step = 0.05
TimeStep == <<1, 20>>

\* self.max_time = 4 * np.pi, in units of pi
MaxTimePi == 4

\* np.pi lies between these two.
PiLower == <<314159, 100000>>

PiUpper == <<314160, 100000>>

\* self.current_time > self.max_time: the outcomes the comparison can have.
\* rat + pi * np.pi > 4 * np.pi exactly when rat > (4 - pi) * np.pi, which
\* the bounds on np.pi decide (4 - pi >= 0) except within 1e-5 of equality.
ExceedsMaxTime(time) ==
    LET rest == RatAdd(RatInt(MaxTimePi), RatNeg(time.pi))
    IN  IF RatLess(RatMul(rest, PiUpper), time.rat) THEN {TRUE}
        ELSE IF ~RatLess(RatMul(rest, PiLower), time.rat) THEN {FALSE}
        ELSE BOOLEAN

\* if len(trace) > 1000: trace = trace[-1000:]
TraceLimit == 1000

Limited(trace) ==
    IF Len(trace) > TraceLimit
    THEN SubSeq(trace, Len(trace) - TraceLimit + 1, Len(trace))
    ELSE trace

\* frames = 120 in save_gif
GifFrames == 120

\* The canvas asks generate_curve_from_concept for 1000 samples; the model
\* draws MaxCanvasPoints of them.
CanvasTPoints == MaxCanvasPoints

\* "if self.current_concept": the concept is set and is not an empty dict.
Truthy(optional) == optional # <<>> /\ optional[1] # <<>>

(***************************************************************************)
(* The concept loader: utils/concept_loader.py.  The catalog file is       *)
(* missing, malformed, or holds a JSON object: a sequence, in file order,  *)
(* of categories, each with its list of concepts.                          *)
(***************************************************************************)
StrSeries == <<"S", "e", "r", "i", "e", "s">>

StrCurves == <<"C", "u", "r", "v", "e", "s">>

StrSpace == <<" ">>

StrSeparator == <<" ", "-", " ">>

\* The characters of the model's strings, in code point order.
Alphabet ==
    <<" ", "-",
      "A", "B", "C", "D", "E", "F", "G", "H", "I", "J", "K", "L", "M",
      "N", "O", "P", "Q", "R", "S", "T", "U", "V", "W", "X", "Y", "Z",
      "a", "b", "c", "d", "e", "f", "g", "h", "i", "j", "k", "l", "m",
      "n", "o", "p", "q", "r", "s", "t", "u", "v", "w", "x", "y", "z">>

\* ord
Ord(ch) == CHOOSE i \in 1..Len(Alphabet) : Alphabet[i] = ch

\* str.__lt__: a < b, character by character.
RECURSIVE StrLess(_, _)
StrLess(a, b) ==
    IF b = <<>> THEN FALSE
    ELSE IF a = <<>> THEN TRUE
    ELSE IF Head(a) = Head(b) THEN StrLess(Tail(a), Tail(b))
    ELSE Ord(Head(a)) < Ord(Head(b))

\* str.replace(old, new): every occurrence, left to right, without overlap.
RECURSIVE Replace(_, _, _)
Replace(str, old, new) ==
    IF str = <<>> THEN <<>>
    ELSE IF HasAt(str, 1, old)
    THEN new \o Replace(SubSeq(str, Len(old) + 1, Len(str)), old, new)
    ELSE <<Head(str)>> \o Replace(Tail(str), old, new)

\* Mutant of SplitOnce: the split is at the last occurrence of sep.
SplitOnceLast(str, sep) ==
    LET at == CHOOSE i \in 1..Len(str) :
                  /\ HasAt(str, i, sep)
                  /\ \A j \in (i + 1)..Len(str) : ~HasAt(str, j, sep)
    IN  <<SubSeq(str, 1, at - 1), SubSeq(str, at + Len(sep), Len(str))>>

\* str.split(sep, 1) for a str that contains sep.
SplitOnce(str, sep) ==
    LET at == CHOOSE i \in 1..Len(str) :
                  /\ HasAt(str, i, sep)
                  /\ \A j \in 1..(i - 1) : ~HasAt(str, j, sep)
    IN  <<SubSeq(str, 1, at - 1), SubSeq(str, at + Len(sep), Len(str))>>

\* Mutant of Sorted: the list is returned in the order it was built.
SortedNot(list) == list

\* sorted(options): insertion into a sorted list, equal strings kept.
RECURSIVE Sorted(_)
Sorted(list) ==
    IF list = <<>> THEN <<>>
    ELSE LET rest == Sorted(Tail(list))
             x == Head(list)
             smaller == {i \in 1..Len(rest) : StrLess(rest[i], x)}
             n == Cardinality(smaller)
         IN  SubSeq(rest, 1, n) \o <<x>> \o SubSeq(rest, n + 1, Len(rest))

\* Mutant of LoadVisualizationConcepts: a built-in catalog stands in for a
\* file that cannot be loaded.
LoadVisualizationConceptsBuiltIn(file) ==
    IF file.status = "ok" THEN file.data
    ELSE <<[category |-> StrFourierSeries, concepts |-> <<[name |-> StrSquareWave]>>]>>

\* load_visualization_concepts(): the JSON object of the file, the empty
\* dict when the file is missing or malformed.
LoadVisualizationConcepts(file) ==
    IF file.status = "ok" THEN file.data ELSE <<>>

\* concept.copy() with concept_with_category['category'] = category
WithCategory(c, category) ==
    [f \in DOMAIN c \cup {"category"} |->
        IF f = "category" THEN category ELSE c[f]]

\* The loops of get_all_concepts_flat over the first n categories.
RECURSIVE FlatLoop(_, _)
FlatLoop(concepts_data, n) ==
    IF n = 0 THEN <<>>
    ELSE LET entry == concepts_data[n]
         IN  FlatLoop(concepts_data, n - 1)
                 \o [i \in 1..Len(entry.concepts) |->
                        WithCategory(entry.concepts[i], entry.category)]

\* get_all_concepts_flat()
GetAllConceptsFlat(file) ==
    LET concepts_data == LoadVisualizationConcepts(file)
    IN  FlatLoop(concepts_data, Len(concepts_data))

\* get_concept_by_name(concept_name): the first concept of that name, the
\* empty dict when there is none.
GetConceptByName(file, name) ==
    LET all_concepts == GetAllConceptsFlat(file)
        found == {i \in 1..Len(all_concepts) : all_concepts[i].name = name}
    IN  IF found = {} THEN <<>>
        ELSE all_concepts[CHOOSE i \in found : \A j \in found : i <= j]

\* The display text of a category.
CategoryDisplay(category) ==
    Replace(Replace(category, StrSeries, StrSpace \o StrSeries),
            StrCurves, StrSpace \o StrCurves)

\* f"{category_display} - {concept['name']}"
Option(c) == CategoryDisplay(c.category) \o StrSeparator \o c.name

\* get_dropdown_options()
GetDropdownOptions(file) ==
    LET all_concepts == GetAllConceptsFlat(file)
    IN  Sorted([i \in 1..Len(all_concepts) |-> Option(all_concepts[i])])

\* parse_dropdown_selection(selection)
ParseDropdownSelection(file, sel) ==
    IF ~Contains(StrSeparator, sel) THEN <<>>
    ELSE LET parts == SplitOnce(sel, StrSeparator)
         IN  IF Len(parts) # 2 THEN <<>>
             ELSE GetConceptByName(file, parts[2])

(***************************************************************************)
(* Objects.  An epicycle dictionary is an object: a list holds references  *)
(* into the sequence of the dictionaries allocated so far, and a store     *)
(* through one reference is seen through every other reference to it.      *)
(***************************************************************************)
\* Mutant of Allocate: dictionaries allocated earlier are handed out again.
AllocateReusing(objects, dicts) ==
    IF dicts # <<>> /\ Len(objects) >= Len(dicts)
    THEN [objects |-> objects, refs |-> [i \in 1..Len(dicts) |-> i]]
    ELSE [objects |-> objects \o dicts,
          refs |-> [i \in 1..Len(dicts) |-> Len(objects) + i]]

\* The dict displays of a call: every one is a new object.
Allocate(objects, dicts) ==
    [objects |-> objects \o dicts,
     refs |-> [i \in 1..Len(dicts) |-> Len(objects) + i]]

\* The dictionaries a list of references holds.
Deref(objects, refs) == [i \in 1..Len(refs) |-> objects[refs[i]]]

(***************************************************************************)
(* Inputs.                                                                 *)
(***************************************************************************)
ConceptNames ==
    {StrSquareWave, StrSawtoothWave, StrTriangleWave, StrLissajousCurve,
     StrEpicycloid, StrExponentialFunction, StrSineFunction, StrCosineFunction,
     StrCircle}

Categories == {StrFourierSeries, StrParametricCurves, StrTaylorSeries, StrCustom}

\* Concept dictionaries, some without a 'name' or a 'category' key.
Concepts ==
    {[name |-> n, category |-> c] : n \in ConceptNames, c \in Categories}
        \cup {[category |-> c] : c \in Categories}
        \cup {[name |-> StrSquareWave], <<>>}

NTerms == (-1)..MaxTerms

TPoints == 1..MaxTPoints

\* Times: every multiple of a quarter turn up to MaxTime, and pi/4.
Times == {RatInt(k) : k \in 0..MaxTime} \cup {<<1, 2>>}

\* Epicycles a caller may pass to the evaluators.
SampleEpicycles ==
    {Epicycle(ScalarInt(1), RatInt(1), RatInt(0), 1),
     Epicycle(ScalarInt(2), RatInt(3), RatInt(HalfPi), -1),
     Epicycle(Scalar(<<1, 2>>, 0), RatInt(2), RatInt(Pi), 1),
     Epicycle(Scalar(<<4, 3>>, 1), <<1, 2>>, RatInt(0), -1)}

RECURSIVE SeqsUpTo(_, _)
SeqsUpTo(S, n) ==
    IF n = 0 THEN {<<>>}
    ELSE LET shorter == SeqsUpTo(S, n - 1)
         IN  shorter \cup {Append(q, e) : q \in shorter, e \in S}

EpicycleLists == SeqsUpTo(SampleEpicycles, MaxLen)

\* The terms a user writes in a custom equation: negated or not, a
\* coefficient literal (or none), sin or cos, a frequency literal (or none),
\* and whether the literals are followed by a '*'.
Term(negated, coeff, stars, fn, freq) ==
    [negated |-> negated, coeff |-> coeff, stars |-> stars, fn |-> fn, freq |-> freq]

LitHalf == <<"0", ".", "5">>

LitTwo == <<"2">>

LitThree == <<"3">>

LitTwoDots == <<"1", ".", "2", ".", "3">>

LitDot == <<".">>

SampleTerms ==
    {Term(FALSE, <<>>, TRUE, StrSin, <<>>),
     Term(FALSE, LitHalf, TRUE, StrSin, LitThree),
     Term(FALSE, LitTwo, FALSE, StrSin, LitTwo),
     Term(TRUE, LitHalf, TRUE, StrSin, <<>>),
     Term(FALSE, <<>>, TRUE, StrCos, <<>>),
     Term(TRUE, LitTwo, TRUE, StrCos, LitThree),
     Term(FALSE, LitTwoDots, TRUE, StrSin, <<>>),
     Term(FALSE, LitDot, TRUE, StrSin, LitTwo)}

TermLists == SeqsUpTo(SampleTerms, MaxLen)

\* The text of a term, its sign apart.
TermText(term) ==
    term.coeff \o (IF term.coeff # <<>> /\ term.stars THEN StrStar ELSE <<>>)
        \o term.fn \o StrOpen
        \o term.freq \o (IF term.freq # <<>> /\ term.stars THEN StrStar ELSE <<>>)
        \o StrClose

\* The text of an expression: its terms joined by " + " or " - ", a leading
\* "-" on a negated first term.
RECURSIVE EquationText(_)
EquationText(terms) ==
    IF terms = <<>> THEN <<>>
    ELSE LET n == Len(terms)
             last == terms[n]
             front == SubSeq(terms, 1, n - 1)
             joint == IF n = 1 THEN IF last.negated THEN <<"-">> ELSE <<>>
                      ELSE IF last.negated THEN <<" ", "-", " ">>
                      ELSE <<" ", "+", " ">>
         IN  EquationText(front) \o joint \o TermText(last)

StrGarbage == <<"g", "a", "r", "b", "a", "g", "e">>

\* Text with no sin/cos term that may precede the terms.
Prefixes == {<<>>, StrGarbage}

\* The default of the terms spin box, and the term counts passed.
DefaultTerms == 10

CustomNTerms == NTerms \cup {DefaultTerms}

StrCustomFunction ==
    <<"C", "u", "s", "t", "o", "m", " ", "F", "u", "n", "c", "t", "i", "o", "n">>

StrSinT == <<"s", "i", "n", "(", "t", ")">>

\* The concepts the window hands to the canvas, one for every branch of
\* generate_curve_from_concept.
CanvasConcepts ==
    {[name |-> StrSquareWave, category |-> StrFourierSeries],
     [name |-> StrSawtoothWave, category |-> StrFourierSeries],
     [name |-> StrTriangleWave, category |-> StrFourierSeries],
     [name |-> StrCircle, category |-> StrFourierSeries],
     [name |-> StrLissajousCurve, category |-> StrParametricCurves],
     [name |-> StrEpicycloid, category |-> StrParametricCurves],
     [name |-> StrCircle, category |-> StrParametricCurves],
     [name |-> StrExponentialFunction, category |-> StrTaylorSeries],
     [name |-> StrSineFunction, category |-> StrTaylorSeries],
     [name |-> StrCosineFunction, category |-> StrTaylorSeries]}

\* Names holding two keywords, the one tested later written first, and a
\* name holding a keyword in lower case only.
StrSawtoothSquare == <<"S", "a", "w", "t", "o", "o", "t", "h", " ", "S", "q", "u", "a", "r", "e">>

StrTriangleSawtooth == <<"T", "r", "i", "a", "n", "g", "l", "e", " ", "S", "a", "w", "t", "o", "o", "t", "h">>

StrEpicycloidLissajous == <<"E", "p", "i", "c", "y", "c", "l", "o", "i", "d", " ", "L", "i", "s", "s", "a", "j", "o", "u", "s">>

StrSineExponential == <<"S", "i", "n", "e", " ", "E", "x", "p", "o", "n", "e", "n", "t", "i", "a", "l">>

StrLowerSquare == <<"s", "q", "u", "a", "r", "e", " ", "w", "a", "v", "e">>

\* The concepts of the two-call scenario: the canvas concepts and the names
\* that put two keywords, or the wrong letter case, to the dispatch.
BuildConcepts ==
    CanvasConcepts \cup
    {[name |-> StrSawtoothSquare, category |-> StrFourierSeries],
     [name |-> StrTriangleSawtooth, category |-> StrFourierSeries],
     [name |-> StrLowerSquare, category |-> StrFourierSeries],
     [name |-> StrEpicycloidLissajous, category |-> StrParametricCurves],
     [name |-> StrSineExponential, category |-> StrTaylorSeries]}

\* The values of the terms spin box, from its minimum 1 on.
SpinBoxTerms == 1..MaxSpinBox

\* The equations typed in the custom equation dialog: the text the dialog
\* opens with, a single term, a term with a literal that is no number, and
\* text with no term.
CanvasEquations ==
    {StrSinT \o <<" ", "+", " ">> \o LitHalf \o StrStar \o StrSin \o StrOpen
         \o LitThree \o StrStar \o StrClose,
     LitTwo \o StrStar \o StrCos \o StrOpen \o LitThree \o StrStar \o StrClose,
     LitDot \o StrStar \o StrSinT,
     StrGarbage}

\* The custom concept the dialog builds from an equation.
CustomConcept(equation) ==
    [name |-> StrCustomFunction, category |-> StrCustom, custom_function |-> equation]

\* The concepts, term counts and equations of the animation scenario.
AnimationConcepts == {[name |-> StrSquareWave, category |-> StrFourierSeries]}

AnimationTerms == {1, 3}

AnimationEquations ==
    {<<"2", "*", "c", "o", "s", "(", "3", "*", "t", ")">>,
     <<".", "*", "s", "i", "n", "(", "t", ")">>}

\* The frame at which save_gif stops setting the time: the first (cancelled
\* at once) or the last of range(120).
GifLastFrames == {0, 119}

\* Slider values: amplitude in [0.1, 5.0], frequency in [0.1, 3.0], phase in
\* radians.
Amplitudes == {<<1, 10>>, RatInt(1), RatInt(5)}

FrequencyScales == {RatInt(1), RatInt(3)}

PhaseOffsets == {RatInt(0), <<1, 2>>}

StrDashedName == <<"a", " ", "-", " ", "b">>

StrDashedCategory == <<"X", " ", "-", " ", "Y">>

\* Catalog files: one or two categories, each with up to MaxLen concepts.
CatalogNames == {StrSquareWave, StrDashedName}

CatalogCategories == {StrFourierSeries, StrParametricCurves, StrDashedCategory}

CatalogEntries ==
    {[category |-> c, concepts |-> l] :
        c \in CatalogCategories,
        l \in SeqsUpTo({[name |-> n] : n \in CatalogNames}, MaxLen)}

Catalogs ==
    {<<>>} \cup {<<e>> : e \in CatalogEntries}
        \cup {<<p[1], p[2]>> :
                 p \in {q \in CatalogEntries \X CatalogEntries :
                           q[1].category # q[2].category}}

Files ==
    {[status |-> "missing"], [status |-> "malformed"]}
        \cup {[status |-> "ok", data |-> c] : c \in Catalogs}

\* What the file becomes when it is deleted, corrupted or emptied.
FileChanges ==
    {[status |-> "missing"], [status |-> "malformed"], [status |-> "ok", data |-> <<>>]}

\* Names looked up and texts parsed by a caller.
LookupNames == CatalogNames \cup {StrEmpty}

SelectionTexts ==
    {StrEmpty, StrSquareWave,
     StrFourierSeries \o StrSeparator \o StrSquareWave,
     StrSeparator \o StrDashedName}

(***************************************************************************)
(* State: the arguments and results of the last call of each function.     *)
(***************************************************************************)
VARIABLES
    op,            \* the function that produced the current epicycle list
    concept,       \* generate_curve_from_concept: concept
    concept_name,  \* generate_fourier_epicycles: concept_name
    n_terms,       \* n_terms of the producing call
    t_points,      \* generate_curve_from_concept: t_points
    t_grid,        \* generate_curve_from_concept: its time grid, the local t
    x_curve,       \* generate_curve_from_concept: first array returned
    y_curve,       \* generate_curve_from_concept: second array returned
    epicycles,     \* the epicycle list returned (or supplied by the caller)
    t,             \* the time the evaluators were last called with
    evaluated,     \* the evaluators that have run on (epicycles, t)
    position,      \* calculate_epicycle_position(epicycles, t)
    positions,     \* get_epicycle_chain_positions(epicycles, t)
    custom_called,    \* generate_custom_epicycles has been called
    custom_terms,     \* the terms the user wrote
    equation_str,     \* generate_custom_epicycles: equation_str
    custom_n_terms,   \* generate_custom_epicycles: n_terms
    custom_raised,    \* generate_custom_epicycles raised an exception
    custom_epicycles, \* generate_custom_epicycles: the list returned
    current_concept,    \* canvas.current_concept: <<>> for None, else <<concept>>
    base_epicycles,     \* the list a producer returned to the canvas, as returned
    canvas_epicycles,   \* canvas.epicycles
    curve_x,            \* canvas.curve_x
    curve_y,            \* canvas.curve_y
    individual_traces,  \* canvas.individual_traces
    traced_points,      \* canvas.traced_points
    current_time,       \* canvas.current_time
    amplitude_scale,    \* canvas.amplitude_scale
    frequency_scale,    \* canvas.frequency_scale
    phase_offset,       \* canvas.phase_offset
    installed_n_terms,  \* terms_spinbox.value() the window passed when it last
                        \* installed epicycles (0: none yet)
    is_playing,         \* canvas.is_playing
    show_individual_traces, \* canvas.show_individual_traces
    animate_raised,     \* animate_frame raised IndexError at a trace index
    wrapped,            \* the last handler was an animate_frame that wrapped
    catalog_file,       \* visualization_concepts.json
    loader_calls,       \* the loader functions whose results are held
    dropdown_options,   \* get_dropdown_options()
    selection,          \* parse_dropdown_selection: selection
    parsed,             \* parse_dropdown_selection(selection)
    options_file,       \* the file as get_dropdown_options read it
    load_outcomes,      \* load_visualization_concepts(): value returned, by file status
    lookup_name,        \* get_concept_by_name: concept_name
    lookup_result,      \* get_concept_by_name(concept_name)
    build_step,         \* none, first (call made), mutated, second (call made)
    build_concept,      \* the caller's concept dictionary
    build_n_terms,      \* n_terms of both calls
    objects,            \* the epicycle dictionaries allocated so far
    first_call,         \* first call: references returned and curves
    first_epicycles,    \* first call: the epicycles as they were returned
    second_call         \* second call: references returned and curves

mathVars == <<op, concept, concept_name, n_terms, t_points, t_grid, x_curve, y_curve,
              epicycles, t, evaluated, position, positions>>

customVars == <<custom_called, custom_terms, equation_str, custom_n_terms,
                custom_raised, custom_epicycles>>

canvasVars == <<current_concept, base_epicycles, canvas_epicycles, curve_x, curve_y,
                individual_traces, traced_points, current_time, amplitude_scale,
                frequency_scale, phase_offset, installed_n_terms, is_playing,
                show_individual_traces, animate_raised, wrapped>>

catalogVars == <<catalog_file, loader_calls, dropdown_options, selection, parsed,
                 options_file, load_outcomes, lookup_name, lookup_result>>

buildVars == <<build_step, build_concept, build_n_terms, objects, first_call,
               first_epicycles, second_call>>

uiVars == <<customVars, canvasVars, catalogVars, buildVars>>

vars == <<mathVars, uiVars>>

InitCustom ==
    /\ custom_called = FALSE
    /\ custom_terms = <<>>
    /\ equation_str = <<>>
    /\ custom_n_terms = 0
    /\ custom_raised = FALSE
    /\ custom_epicycles = <<>>

\* EnhancedAnimationCanvas.__init__
InitCanvas ==
    /\ current_concept = <<>>
    /\ base_epicycles = <<>>
    /\ canvas_epicycles = <<>>
    /\ curve_x = <<>>
    /\ curve_y = <<>>
    /\ individual_traces = <<>>
    /\ traced_points = <<>>
    /\ current_time = TimeZero
    /\ amplitude_scale = RatInt(1)
    /\ frequency_scale = RatInt(1)
    /\ phase_offset = RatInt(0)
    /\ installed_n_terms = 0
    /\ is_playing = FALSE
    /\ show_individual_traces = TRUE
    /\ animate_raised = FALSE
    /\ wrapped = FALSE

\* No catalog file has been written and no loader function called.
InitCatalog ==
    /\ catalog_file = [status |-> "missing"]
    /\ loader_calls = {}
    /\ dropdown_options = <<>>
    /\ selection = <<>>
    /\ parsed = <<>>
    /\ options_file = [status |-> "missing"]
    /\ load_outcomes = <<>>
    /\ lookup_name = <<>>
    /\ lookup_result = <<>>

NoCall == [refs |-> <<>>, x_curve |-> <<>>, y_curve |-> <<>>]

\* No call of generate_curve_from_concept made, no dictionary allocated.
InitBuild ==
    /\ build_step = "none"
    /\ build_concept = <<>>
    /\ build_n_terms = 0
    /\ objects = <<>>
    /\ first_call = NoCall
    /\ first_epicycles = <<>>
    /\ second_call = NoCall

Init ==
    /\ op = "none"
    /\ concept = <<>>
    /\ concept_name = StrEmpty
    /\ n_terms = 0
    /\ t_points = 0
    /\ t_grid = <<>>
    /\ x_curve = <<>>
    /\ y_curve = <<>>
    /\ epicycles = <<>>
    /\ t = RatInt(0)
    /\ evaluated = {}
    /\ position = <<Zero, Zero>>
    /\ positions = <<>>
    /\ InitCustom
    /\ InitCanvas
    /\ InitCatalog
    /\ InitBuild

ResetEvaluators ==
    /\ t' = RatInt(0)
    /\ evaluated' = {}
    /\ position' = <<Zero, Zero>>
    /\ positions' = <<>>

\* A caller invokes ConceptMath.generate_fourier_epicycles(name, n).
CallGenerateFourierEpicycles ==
    \E name \in ConceptNames, n \in NTerms :
        /\ op = "none"
        /\ op' = "generate_fourier_epicycles"
        /\ concept_name' = name
        /\ n_terms' = n
        /\ epicycles' = GenerateFourierEpicycles(name, n)
        /\ concept' = <<>>
        /\ t_points' = 0
        /\ t_grid' = <<>>
        /\ x_curve' = <<>>
        /\ y_curve' = <<>>
        /\ ResetEvaluators
        /\ UNCHANGED uiVars

\* A caller invokes generate_curve_from_concept(c, n, points).
CallGenerateCurveFromConcept ==
    \E c \in Concepts, n \in NTerms, points \in TPoints :
        LET result == GenerateCurveFromConcept(c, n, points)
        IN  /\ op = "none"
            /\ op' = "generate_curve_from_concept"
            /\ concept' = c
            /\ concept_name' = Get(c, "name", StrEmpty)
            /\ n_terms' = n
            /\ t_points' = points
            /\ t_grid' = TimeGrid(points)
            /\ x_curve' = result.x_curve
            /\ y_curve' = result.y_curve
            /\ epicycles' = result.epicycles
            /\ ResetEvaluators
            /\ UNCHANGED uiVars

\* A caller builds an epicycle list of its own to hand to the evaluators.
CallerEpicycles ==
    \E list \in EpicycleLists :
        /\ op = "none"
        /\ op' = "caller"
        /\ epicycles' = list
        /\ concept' = <<>>
        /\ concept_name' = StrEmpty
        /\ n_terms' = 0
        /\ t_points' = 0
        /\ t_grid' = <<>>
        /\ x_curve' = <<>>
        /\ y_curve' = <<>>
        /\ ResetEvaluators
        /\ UNCHANGED uiVars

\* A caller invokes ConceptMath.calculate_epicycle_position(epicycles, time).
CallCalculateEpicyclePosition ==
    \E time \in Times :
        /\ op # "none"
        /\ t' = time
        /\ position' = CalculateEpicyclePosition(epicycles, time)
        /\ evaluated' = IF time = t THEN evaluated \cup {"position"} ELSE {"position"}
        /\ positions' = IF time = t THEN positions ELSE <<>>
        /\ UNCHANGED <<op, concept, concept_name, n_terms, t_points, t_grid,
                       x_curve, y_curve, epicycles>>
        /\ UNCHANGED uiVars

\* A caller invokes ConceptMath.get_epicycle_chain_positions(epicycles, time).
CallGetEpicycleChainPositions ==
    \E time \in Times :
        /\ op # "none"
        /\ t' = time
        /\ positions' = GetEpicycleChainPositions(epicycles, time)
        /\ evaluated' = IF time = t THEN evaluated \cup {"chain"} ELSE {"chain"}
        /\ position' = IF time = t THEN position ELSE <<Zero, Zero>>
        /\ UNCHANGED <<op, concept, concept_name, n_terms, t_points, t_grid,
                       x_curve, y_curve, epicycles>>
        /\ UNCHANGED uiVars

\* The caller drops the results it holds; the functions keep no state, so the
\* next call starts from the state after construction.
Discard ==
    /\ op # "none"
    /\ op' = "none"
    /\ concept' = <<>>
    /\ concept_name' = StrEmpty
    /\ n_terms' = 0
    /\ t_points' = 0
    /\ t_grid' = <<>>
    /\ x_curve' = <<>>
    /\ y_curve' = <<>>
    /\ epicycles' = <<>>
    /\ ResetEvaluators
    /\ UNCHANGED uiVars

Next ==
    \/ CallGenerateFourierEpicycles
    \/ CallGenerateCurveFromConcept
    \/ CallerEpicycles
    \/ CallCalculateEpicyclePosition
    \/ CallGetEpicycleChainPositions
    \/ Discard

Spec == Init /\ [][Next]_vars

(***************************************************************************)
(* The custom equation parser, called on its own.                          *)
(***************************************************************************)
\* A caller invokes generate_custom_epicycles(equation, n).
CallGenerateCustomEpicycles ==
    \E terms \in TermLists, prefix \in Prefixes, n \in CustomNTerms :
        LET equation == prefix \o EquationText(terms)
            result == GenerateCustomEpicycles(equation, n)
        IN  /\ ~custom_called
            /\ custom_called' = TRUE
            /\ custom_terms' = terms
            /\ equation_str' = equation
            /\ custom_n_terms' = n
            /\ custom_raised' = result.raised
            /\ custom_epicycles' = result.epicycles
            /\ UNCHANGED <<mathVars, canvasVars, catalogVars, buildVars>>

\* The caller drops the result; the parser keeps no state.
DiscardCustom ==
    /\ custom_called
    /\ custom_called' = FALSE
    /\ custom_terms' = <<>>
    /\ equation_str' = <<>>
    /\ custom_n_terms' = 0
    /\ custom_raised' = FALSE
    /\ custom_epicycles' = <<>>
    /\ UNCHANGED <<mathVars, canvasVars, catalogVars, buildVars>>

NextCustom ==
    \/ CallGenerateCustomEpicycles
    \/ DiscardCustom

SpecCustom == Init /\ [][NextCustom]_vars

(***************************************************************************)
(* The canvas and the handlers of the window that change it.               *)
(***************************************************************************)
\* canvas.set_concept_data(c, n) under the scales amplitude, frequency and
\* offset the canvas holds when the loop runs.
SetConceptDataUnder(c, n, amplitude, frequency, offset) ==
    LET result == GenerateCurveFromConcept(c, n, CanvasTPoints)
    IN  /\ current_concept' = <<c>>
        /\ curve_x' = result.x_curve
        /\ curve_y' = result.y_curve
        /\ base_epicycles' = result.epicycles
        /\ canvas_epicycles' =
              [i \in 1..Len(result.epicycles) |->
                  Adjusted(result.epicycles[i], amplitude, frequency, offset)]
        /\ individual_traces' = EmptyTraces(Len(result.epicycles))
        /\ traced_points' = <<>>
        /\ current_time' = TimeZero

\* EnhancedMainWindow.on_concept_changed, the dropdown holding concept c and
\* the terms spin box n: canvas.set_concept_data(c, n).
OnConceptChanged(c, n) ==
        /\ SetConceptDataUnder(c, n, amplitude_scale, frequency_scale, phase_offset)
        /\ installed_n_terms' = n
        /\ wrapped' = FALSE
        /\ UNCHANGED <<amplitude_scale, frequency_scale, phase_offset, is_playing,
                       show_individual_traces, animate_raised>>

\* EnhancedMainWindow.on_parameters_changed, the sliders holding amplitude,
\* frequency and phase and the checkbox show:
\* canvas.update_parameters(amplitude, frequency, phase), then the checkbox
\* is copied to the canvas.
OnParametersChanged(amplitude, frequency, phase, show) ==
        /\ amplitude_scale' = amplitude
        /\ frequency_scale' = frequency
        /\ phase_offset' = phase
        /\ IF Truthy(current_concept)
           THEN LET n == IF canvas_epicycles # <<>> THEN Len(canvas_epicycles)
                         ELSE 10
                IN  SetConceptDataUnder(current_concept[1], n,
                                        amplitude, frequency, phase)
           ELSE UNCHANGED <<current_concept, base_epicycles, canvas_epicycles,
                            curve_x, curve_y, individual_traces, traced_points,
                            current_time>>
        /\ show_individual_traces' = show
        /\ wrapped' = FALSE
        /\ UNCHANGED <<installed_n_terms, is_playing, animate_raised>>

\* EnhancedMainWindow.apply_custom_concept(custom_concept), the dialog holding
\* equation and the terms spin box n: an exception of the parser is caught
\* and the canvas is left as it was.
ApplyCustomConceptOf(equation, n) ==
        LET custom_concept == CustomConcept(equation)
            result == GenerateCustomEpicycles(
                          Get(custom_concept, "custom_function", StrSinT), n)
        IN  /\ IF result.raised
               THEN UNCHANGED <<current_concept, base_epicycles, canvas_epicycles,
                                individual_traces, traced_points, current_time,
                                installed_n_terms>>
               ELSE /\ current_concept' = <<custom_concept>>
                    /\ installed_n_terms' = n
                    /\ base_epicycles' = result.epicycles
                    /\ canvas_epicycles' =
                          [i \in 1..Len(result.epicycles) |->
                              OnCanvas(result.epicycles[i])]
                    /\ individual_traces' = EmptyTraces(Len(result.epicycles))
                    /\ traced_points' = <<>>
                    /\ current_time' = TimeZero
            /\ wrapped' = FALSE
            /\ UNCHANGED <<curve_x, curve_y, amplitude_scale, frequency_scale,
                           phase_offset, is_playing, show_individual_traces,
                           animate_raised>>

\* The three handlers over the inputs of the canvas scenario, the checkbox
\* left ticked.
SetConceptData ==
    \E c \in CanvasConcepts, n \in SpinBoxTerms :
        /\ OnConceptChanged(c, n)
        /\ UNCHANGED <<mathVars, customVars, catalogVars, buildVars>>

UpdateParameters ==
    \E amplitude \in Amplitudes, frequency \in FrequencyScales, phase \in PhaseOffsets :
        /\ OnParametersChanged(amplitude, frequency, phase, TRUE)
        /\ UNCHANGED <<mathVars, customVars, catalogVars, buildVars>>

ApplyCustomConcept ==
    \E equation \in CanvasEquations, n \in SpinBoxTerms :
        /\ ApplyCustomConceptOf(equation, n)
        /\ UNCHANGED <<mathVars, customVars, catalogVars, buildVars>>

NextCanvas ==
    \/ SetConceptData
    \/ UpdateParameters
    \/ ApplyCustomConcept

SpecCanvas == Init /\ [][NextCanvas]_vars

(***************************************************************************)
(* The animation: the timer's animate_frame and the handlers that reset    *)
(* the traces, with the three handlers above over fewer inputs.  A point   *)
(* of a trace is recorded by its time: its value is a function of that     *)
(* time and of the epicycles held, and every handler that changes the      *)
(* epicycles empties the traces.                                           *)
(***************************************************************************)
AnimationSetConceptData ==
    \E c \in AnimationConcepts, n \in AnimationTerms :
        /\ OnConceptChanged(c, n)
        /\ UNCHANGED <<mathVars, customVars, catalogVars, buildVars>>

AnimationUpdateParameters ==
    \E show \in BOOLEAN :
        /\ OnParametersChanged(RatInt(1), RatInt(1), RatInt(0), show)
        /\ UNCHANGED <<mathVars, customVars, catalogVars, buildVars>>

AnimationApplyCustomConcept ==
    \E equation \in AnimationEquations, n \in AnimationTerms :
        /\ ApplyCustomConceptOf(equation, n)
        /\ UNCHANGED <<mathVars, customVars, catalogVars, buildVars>>

\* EnhancedMainWindow.toggle_animation: start_animation or stop_animation.
ToggleAnimation ==
    /\ is_playing' = ~is_playing
    /\ wrapped' = FALSE
    /\ UNCHANGED <<current_concept, base_epicycles, canvas_epicycles, curve_x,
                   curve_y, individual_traces, traced_points, current_time,
                   amplitude_scale, frequency_scale, phase_offset,
                   installed_n_terms, show_individual_traces, animate_raised>>
    /\ UNCHANGED <<mathVars, customVars, catalogVars, buildVars>>

\* canvas.animate_frame(frame), called by the timer; it returns at once when
\* the animation is not playing or there is no epicycle.
AnimateFrame ==
    LET n == Len(canvas_epicycles)
        held == Len(individual_traces)
        \* self.individual_traces[i].append(...) for i in range(n)
        missing == show_individual_traces /\ held < n
        appended == IF show_individual_traces
                    THEN [i \in 1..held |->
                             IF i <= n
                             THEN Limited(Append(individual_traces[i], current_time))
                             ELSE individual_traces[i]]
                    ELSE individual_traces
        points == Limited(Append(traced_points, current_time))
        time == Time(RatAdd(current_time.rat, TimeStep), current_time.pi)
    IN  /\ is_playing
        /\ canvas_epicycles # <<>>
        /\ IF missing
           THEN /\ animate_raised' = TRUE
                /\ individual_traces' = appended
                /\ wrapped' = FALSE
                /\ UNCHANGED <<traced_points, current_time>>
           ELSE \E exceeds \in ExceedsMaxTime(time) :
                   /\ wrapped' = exceeds
                   /\ IF exceeds
                      THEN /\ current_time' = TimeZero
                           /\ traced_points' = <<>>
                           /\ individual_traces' = EmptyTraces(n)
                      ELSE /\ current_time' = time
                           /\ traced_points' = points
                           /\ individual_traces' = appended
                   /\ UNCHANGED animate_raised
        /\ UNCHANGED <<current_concept, base_epicycles, canvas_epicycles, curve_x,
                       curve_y, amplitude_scale, frequency_scale, phase_offset,
                       installed_n_terms, is_playing, show_individual_traces>>
        /\ UNCHANGED <<mathVars, customVars, catalogVars, buildVars>>

\* canvas.reset_animation()
ResetAnimation ==
    /\ current_time' = TimeZero
    /\ traced_points' = <<>>
    /\ individual_traces' = EmptyTraces(Len(canvas_epicycles))
    /\ is_playing' = FALSE
    /\ wrapped' = FALSE
    /\ UNCHANGED <<current_concept, base_epicycles, canvas_epicycles, curve_x,
                   curve_y, amplitude_scale, frequency_scale, phase_offset,
                   installed_n_terms, show_individual_traces, animate_raised>>
    /\ UNCHANGED <<mathVars, customVars, catalogVars, buildVars>>

\* EnhancedMainWindow.save_gif with a file chosen: the animation is stopped,
\* time and traces are reset, and the frames up to last set the time (the
\* canvas's animate_frame returns at once, the animation being stopped);
\* playing resumes unless saving failed.
SaveGif ==
    \E last \in GifLastFrames, failed \in BOOLEAN :
        /\ traced_points' = <<>>
        /\ individual_traces' = EmptyTraces(Len(canvas_epicycles))
        /\ current_time' =
              Time(RatInt(0), RatMul(RatNorm(last, GifFrames), RatInt(MaxTimePi)))
        /\ is_playing' = (is_playing /\ ~failed)
        /\ wrapped' = FALSE
        /\ UNCHANGED <<current_concept, base_epicycles, canvas_epicycles, curve_x,
                       curve_y, amplitude_scale, frequency_scale, phase_offset,
                       installed_n_terms, show_individual_traces, animate_raised>>
        /\ UNCHANGED <<mathVars, customVars, catalogVars, buildVars>>

NextAnimation ==
    \/ AnimationSetConceptData
    \/ AnimationUpdateParameters
    \/ AnimationApplyCustomConcept
    \/ ToggleAnimation
    \/ AnimateFrame
    \/ ResetAnimation
    \/ SaveGif

SpecAnimation == Init /\ [][NextAnimation]_vars

(***************************************************************************)
(* The concept loader and the catalog file it reads on every call.         *)
(***************************************************************************)
\* The catalog file is written before the loader is used.
WriteCatalogFile ==
    \E file \in Files :
        /\ loader_calls = {}
        /\ catalog_file' = file
        /\ UNCHANGED <<loader_calls, dropdown_options, selection, parsed,
                       options_file, load_outcomes, lookup_name, lookup_result>>
        /\ UNCHANGED <<mathVars, customVars, canvasVars, buildVars>>

\* A caller invokes get_dropdown_options().
CallGetDropdownOptions ==
    /\ dropdown_options' = GetDropdownOptions(catalog_file)
    /\ loader_calls' = {"get_dropdown_options"}
    /\ selection' = <<>>
    /\ parsed' = <<>>
    /\ options_file' = catalog_file
    /\ load_outcomes' = <<>>
    /\ lookup_name' = <<>>
    /\ lookup_result' = <<>>
    /\ UNCHANGED catalog_file
    /\ UNCHANGED <<mathVars, customVars, canvasVars, buildVars>>

\* The user picks option k of the dropdown and the window invokes
\* parse_dropdown_selection on it.
CallParseDropdownSelection ==
    \E k \in 1..Len(dropdown_options) :
        /\ "get_dropdown_options" \in loader_calls
        /\ selection' = dropdown_options[k]
        /\ parsed' = ParseDropdownSelection(catalog_file, dropdown_options[k])
        /\ loader_calls' = loader_calls \cup {"parse_dropdown_selection"}
        /\ UNCHANGED <<catalog_file, dropdown_options, options_file, load_outcomes,
                       lookup_name, lookup_result>>
        /\ UNCHANGED <<mathVars, customVars, canvasVars, buildVars>>

\* The caller drops the results it holds.
DiscardOptions ==
    /\ loader_calls # {}
    /\ loader_calls' = {}
    /\ dropdown_options' = <<>>
    /\ selection' = <<>>
    /\ parsed' = <<>>
    /\ options_file' = [status |-> "missing"]
    /\ load_outcomes' = <<>>
    /\ lookup_name' = <<>>
    /\ lookup_result' = <<>>
    /\ UNCHANGED catalog_file
    /\ UNCHANGED <<mathVars, customVars, canvasVars, buildVars>>

\* The catalog file is deleted, corrupted or emptied after a call of
\* get_dropdown_options or load_visualization_concepts and before the next
\* call.  (In a state that holds the result of another call, catalog_file is
\* the file that call read.)
ChangeCatalogFile ==
    \E file \in FileChanges :
        /\ loader_calls # {}
        /\ loader_calls \subseteq {"get_dropdown_options", "load_visualization_concepts"}
        /\ catalog_file' = file
        /\ UNCHANGED <<loader_calls, dropdown_options, selection, parsed,
                       options_file, load_outcomes, lookup_name, lookup_result>>
        /\ UNCHANGED <<mathVars, customVars, canvasVars, buildVars>>

\* A caller invokes load_visualization_concepts(); the values returned by
\* consecutive calls are kept by the status the file had.
CallLoadVisualizationConcepts ==
    LET before == IF "load_visualization_concepts" \in loader_calls
                  THEN load_outcomes ELSE <<>>
    IN  /\ load_outcomes' =
              [st \in DOMAIN before \cup {catalog_file.status} |->
                  IF st = catalog_file.status
                  THEN LoadVisualizationConcepts(catalog_file)
                  ELSE before[st]]
        /\ loader_calls' = {"load_visualization_concepts"}
        /\ dropdown_options' = <<>>
        /\ selection' = <<>>
        /\ parsed' = <<>>
        /\ options_file' = [status |-> "missing"]
        /\ lookup_name' = <<>>
        /\ lookup_result' = <<>>
        /\ UNCHANGED catalog_file
        /\ UNCHANGED <<mathVars, customVars, canvasVars, buildVars>>

\* A caller invokes get_concept_by_name(name).
CallGetConceptByName ==
    \E name \in LookupNames :
        /\ lookup_name' = name
        /\ lookup_result' = GetConceptByName(catalog_file, name)
        /\ loader_calls' = {"get_concept_by_name"}
        /\ dropdown_options' = <<>>
        /\ selection' = <<>>
        /\ parsed' = <<>>
        /\ options_file' = [status |-> "missing"]
        /\ load_outcomes' = <<>>
        /\ UNCHANGED catalog_file
        /\ UNCHANGED <<mathVars, customVars, canvasVars, buildVars>>

\* A caller invokes parse_dropdown_selection on a text of its own.
CallParseText ==
    \E text \in SelectionTexts :
        /\ selection' = text
        /\ parsed' = ParseDropdownSelection(catalog_file, text)
        /\ loader_calls' = {"parse_text"}
        /\ dropdown_options' = <<>>
        /\ options_file' = [status |-> "missing"]
        /\ load_outcomes' = <<>>
        /\ lookup_name' = <<>>
        /\ lookup_result' = <<>>
        /\ UNCHANGED catalog_file
        /\ UNCHANGED <<mathVars, customVars, canvasVars, buildVars>>

NextCatalog ==
    \/ WriteCatalogFile
    \/ CallGetDropdownOptions
    \/ CallParseDropdownSelection
    \/ DiscardOptions
    \/ ChangeCatalogFile
    \/ CallLoadVisualizationConcepts
    \/ CallGetConceptByName
    \/ CallParseText

SpecCatalog == Init /\ [][NextCatalog]_vars

(***************************************************************************)
(* Two calls of generate_curve_from_concept with the same arguments, the   *)
(* caller storing into the dictionaries of the first result in between, as *)
(* set_concept_data does.                                                  *)
(***************************************************************************)
\* generate_curve_from_concept(build_concept, build_n_terms, CanvasTPoints):
\* the references it returns, its curves, and the objects after it.
BuildCall ==
    LET result == GenerateCurveFromConcept(build_concept, build_n_terms, CanvasTPoints)
        alloc == Allocate(objects, result.epicycles)
    IN  [objects |-> alloc.objects,
         epicycles |-> result.epicycles,
         call |-> [refs |-> alloc.refs,
                   x_curve |-> result.x_curve,
                   y_curve |-> result.y_curve]]

\* The caller makes its concept dictionary.
MakeConcept ==
    \E c \in BuildConcepts, n \in SpinBoxTerms :
        /\ build_step = "none"
        /\ build_concept = <<>>
        /\ build_concept' = c
        /\ build_n_terms' = n
        /\ UNCHANGED <<build_step, objects, first_call, first_epicycles, second_call>>
        /\ UNCHANGED <<mathVars, customVars, canvasVars, catalogVars>>

\* The first call; the function reads the concept with concept.get only.
FirstCall ==
    /\ build_step = "none"
    /\ build_concept # <<>>
    /\ build_step' = "first"
    /\ objects' = BuildCall.objects
    /\ first_call' = BuildCall.call
    /\ first_epicycles' = BuildCall.epicycles
    /\ UNCHANGED <<build_concept, build_n_terms, second_call>>
    /\ UNCHANGED <<mathVars, customVars, canvasVars, catalogVars>>

\* The loop of set_concept_data over the first result: stores into each
\* dictionary of the list.
MutateFirst ==
    \E amplitude \in Amplitudes, frequency \in FrequencyScales, phase \in PhaseOffsets :
        /\ build_step = "first"
        /\ build_step' = "mutated"
        /\ objects' =
              [ref \in 1..Len(objects) |->
                  IF \E i \in 1..Len(first_call.refs) : first_call.refs[i] = ref
                  THEN Adjusted(objects[ref], amplitude, frequency, phase)
                  ELSE objects[ref]]
        /\ UNCHANGED <<build_concept, build_n_terms, first_call, first_epicycles,
                       second_call>>
        /\ UNCHANGED <<mathVars, customVars, canvasVars, catalogVars>>

\* The second call, with the same arguments.
SecondCall ==
    /\ build_step \in {"first", "mutated"}
    /\ build_step' = "second"
    /\ objects' = BuildCall.objects
    /\ second_call' = BuildCall.call
    /\ UNCHANGED <<build_concept, build_n_terms, first_call, first_epicycles>>
    /\ UNCHANGED <<mathVars, customVars, canvasVars, catalogVars>>

\* The caller drops both results and its concept.
DiscardBuild ==
    /\ build_step = "second"
    /\ build_step' = "none"
    /\ build_concept' = <<>>
    /\ build_n_terms' = 0
    /\ objects' = <<>>
    /\ first_call' = NoCall
    /\ first_epicycles' = <<>>
    /\ second_call' = NoCall
    /\ UNCHANGED <<mathVars, customVars, canvasVars, catalogVars>>

NextBuild ==
    \/ MakeConcept
    \/ FirstCall
    \/ MutateFirst
    \/ SecondCall
    \/ DiscardBuild

SpecBuild == Init /\ [][NextBuild]_vars

(***************************************************************************)
(* Properties.                                                             *)
(***************************************************************************)
Category == Get(concept, "category", StrEmpty)

\* The epicycle list in the state was built by the Fourier generator.
FourierBuilt ==
    \/ op = "generate_fourier_epicycles"
    \/ op = "generate_curve_from_concept" /\ Category = StrFourierSeries

OddUpTo(n) == {k \in 1..n : k % 2 = 1}

Frequencies == {epicycles[i].frequency : i \in 1..Len(epicycles)}

IncreasingFrequencies ==
    \A i \in 1..(Len(epicycles) - 1) :
        RatLess(epicycles[i].frequency, epicycles[i + 1].frequency)

\* C1: for every n_terms >= 1 the Fourier generator, given a name containing
\* "Square", returns exactly the odd frequencies <= n_terms in increasing
\* order, each with radius 4/(pi*frequency), phase 0 and direction +1.
C1_SquareOddHarmonics ==
    (FourierBuilt /\ Contains(StrSquare, concept_name) /\ n_terms >= 1) =>
        /\ Frequencies = {RatInt(k) : k \in OddUpTo(n_terms)}
        /\ Len(epicycles) = Cardinality(OddUpTo(n_terms))
        /\ IncreasingFrequencies
        /\ \A i \in 1..Len(epicycles) :
              /\ epicycles[i].radius =
                    Scalar(RatMul(RatInt(4), <<epicycles[i].frequency[2],
                                               epicycles[i].frequency[1]>>), 1)
              /\ epicycles[i].phase = RatInt(0)
              /\ epicycles[i].direction = 1

C1_Witness ==
    /\ op = "generate_fourier_epicycles"
    /\ concept_name = StrSquareWave
    /\ n_terms = 6
    /\ Len(epicycles) = 3
    /\ epicycles[3].frequency = RatInt(5)

\* The sum of the arm vectors of the first k epicycles at time time, added
\* from the last arm to the first.
RECURSIVE ArmSum(_, _, _, _)
ArmSum(list, time, from, k) ==
    IF from > k THEN <<Zero, Zero>>
    ELSE LET rest == ArmSum(list, time, from + 1, k)
             angle == Angle(list[from], time)
         IN  <<RealAdd(RealMul(list[from].radius, Cos(angle)), rest[1]),
               RealAdd(RealMul(list[from].radius, Sin(angle)), rest[2])>>

\* C2: get_epicycle_chain_positions(E, t) has length len(E)+1, its element 0
\* is (0,0) at every t, each element i+1 is element i plus
\* radius_i*(cos(angle_i), sin(angle_i)) with
\* angle_i = direction_i*frequency_i*t + phase_i, and element k is the sum of
\* the first k arm vectors.
C2_ChainPositions ==
    ("chain" \in evaluated) =>
        /\ Len(positions) = Len(epicycles) + 1
        /\ positions[1] = <<Zero, Zero>>
        /\ \A i \in 1..Len(epicycles) :
              LET angle == RatAdd(RatMul(RatMul(RatInt(epicycles[i].direction),
                                                epicycles[i].frequency), t),
                                  epicycles[i].phase)
              IN  /\ positions[i + 1][1] =
                        RealAdd(positions[i][1], RealMul(epicycles[i].radius, Cos(angle)))
                  /\ positions[i + 1][2] =
                        RealAdd(positions[i][2], RealMul(epicycles[i].radius, Sin(angle)))
                  /\ positions[i + 1] = ArmSum(epicycles, t, 1, i)

C2_Witness ==
    /\ "chain" \in evaluated
    /\ Len(epicycles) = 2
    /\ t = RatInt(1)
    /\ positions[2] # <<Zero, Zero>>
    /\ positions[3] # positions[2]

\* C3: for every epicycle list E, the empty list included, and every time t,
\* calculate_epicycle_position(E, t) equals the last element of
\* get_epicycle_chain_positions(E, t), the vector sum of all arms.
C3_PositionIsChainEnd ==
    ({"position", "chain"} \subseteq evaluated) =>
        /\ position = positions[Len(positions)]
        /\ position = ArmSum(epicycles, t, 1, Len(epicycles))

C3_Witness ==
    /\ {"position", "chain"} \subseteq evaluated
    /\ Len(epicycles) = 2
    /\ epicycles[2].direction = -1
    /\ t = RatInt(1)
    /\ position # <<Zero, Zero>>

\* C4: for every concept, every n_terms and every t_points >= 1,
\* generate_curve_from_concept returns two curve arrays of length exactly
\* t_points.
C4_CurveLengths ==
    (op = "generate_curve_from_concept" /\ t_points >= 1) =>
        /\ Len(x_curve) = t_points
        /\ Len(y_curve) = t_points

C4_Witness ==
    /\ op = "generate_curve_from_concept"
    /\ Category = StrParametricCurves
    /\ n_terms = 0
    /\ t_points = MaxTPoints
    /\ Len(x_curve) = MaxTPoints
    /\ Len(y_curve) = MaxTPoints

StrictlyIncreasingGrid ==
    \A i \in 1..(Len(t_grid) - 1) : RatLess(t_grid[i], t_grid[i + 1])

UniformGrid ==
    \A i \in 1..(Len(t_grid) - 2) :
        RatAdd(t_grid[i + 1], RatNeg(t_grid[i])) =
            RatAdd(t_grid[i + 2], RatNeg(t_grid[i + 1]))

ChainValue(k) == CalculateEpicyclePosition(epicycles, t_grid[k])[2]

\* C6 as stated: for every concept whose category is not ParametricCurves,
\* generate_curve_from_concept returns the time grid as the first axis and,
\* at every grid index k, a value equal to the vertical component of
\* calculate_epicycle_position(returned epicycles, t[k]).
C6_ValueAxisIsChain ==
    (op = "generate_curve_from_concept" /\ Category # StrParametricCurves) =>
        /\ x_curve = t_grid
        /\ \A k \in 1..Len(t_grid) : y_curve[k] = ChainValue(k)

TaylorExponential ==
    Category = StrTaylorSeries /\ Contains(StrExponential, concept_name)

TaylorSine ==
    /\ Category = StrTaylorSeries
    /\ ~Contains(StrExponential, concept_name)
    /\ Contains(StrSine, concept_name)

\* C6 as amended: for every concept whose category is not ParametricCurves
\* the first axis is the time grid; the value at grid index k is the vertical
\* component of calculate_epicycle_position(returned epicycles, t[k]) for
\* FourierSeries, for a TaylorSeries name matching neither "Exponential" nor
\* "Sine" and for unknown categories, while for a TaylorSeries "Exponential"
\* name it is exp(t[k] - pi) and for a TaylorSeries "Sine" name it is
\* sin(t[k]), whatever the returned epicycles are.
C6_ValueAxis ==
    (op = "generate_curve_from_concept" /\ Category # StrParametricCurves) =>
        /\ x_curve = t_grid
        /\ \A k \in 1..Len(t_grid) :
              y_curve[k] = IF TaylorExponential THEN Real(ExpShifted(t_grid[k]))
                           ELSE IF TaylorSine THEN Real(Sin(t_grid[k]))
                           ELSE ChainValue(k)

C6_Witness ==
    /\ op = "generate_curve_from_concept"
    /\ Category = StrFourierSeries
    /\ concept_name = StrSquareWave
    /\ n_terms = 3
    /\ t_points = 5
    /\ y_curve[2] = {[k |-> 1, a |-> AtomOne, c |-> <<8, 3>>]}

\* C7: for every ParametricCurves concept and every grid time t, the
\* closed-form point (x(t), y(t)) returned by generate_curve_from_concept
\* equals calculate_epicycle_position(returned epicycles, t).
C7_ParametricAgreesWithChain ==
    (op = "generate_curve_from_concept" /\ Category = StrParametricCurves) =>
        \A k \in 1..Len(t_grid) :
            <<x_curve[k], y_curve[k]>> =
                CalculateEpicyclePosition(epicycles, t_grid[k])

\* C8: for every n_terms >= 1 the Fourier generator, given a name containing
\* "Sawtooth" and not "Square", returns one epicycle per harmonic
\* n = 1..n_terms in increasing order, with frequency n, radius
\* |2/(pi*n)| >= 0, and phase 0 when n is odd and pi when n is even.
C8_SawtoothHarmonics ==
    (/\ FourierBuilt
     /\ Contains(StrSawtooth, concept_name)
     /\ ~Contains(StrSquare, concept_name)
     /\ n_terms >= 1) =>
        /\ Len(epicycles) = n_terms
        /\ \A n \in 1..Len(epicycles) :
              /\ epicycles[n].frequency = RatInt(n)
              /\ epicycles[n].radius = Scalar(RatNorm(2, n), 1)
              /\ epicycles[n].radius.c[1] >= 0
              /\ epicycles[n].phase = IF n % 2 = 1 THEN RatInt(0) ELSE RatInt(Pi)

C8_Witness ==
    /\ op = "generate_fourier_epicycles"
    /\ concept_name = StrSawtoothWave
    /\ n_terms = 4
    /\ Len(epicycles) = 4
    /\ epicycles[2].phase = RatInt(Pi)
    /\ epicycles[3].phase = RatInt(0)

\* C9: for every n_terms >= 1 the Fourier generator, given a name containing
\* "Triangle" and neither "Square" nor "Sawtooth", returns exactly the odd
\* harmonics n <= n_terms in increasing order, with frequency n, radius
\* 8/(pi^2*n^2), and phase 0 when (n-1)/2 is even and pi when it is odd, so
\* that the phases alternate 0, pi, 0, pi, ... along the list.
C9_TriangleHarmonics ==
    (/\ FourierBuilt
     /\ Contains(StrTriangle, concept_name)
     /\ ~Contains(StrSquare, concept_name)
     /\ ~Contains(StrSawtooth, concept_name)
     /\ n_terms >= 1) =>
        /\ Frequencies = {RatInt(k) : k \in OddUpTo(n_terms)}
        /\ Len(epicycles) = Cardinality(OddUpTo(n_terms))
        /\ IncreasingFrequencies
        /\ \A i \in 1..Len(epicycles) :
              LET n == epicycles[i].frequency[1]
              IN  /\ epicycles[i].frequency[2] = 1
                  /\ epicycles[i].radius = Scalar(RatNorm(8, n * n), 2)
                  /\ epicycles[i].phase =
                        IF ((n - 1) \div 2) % 2 = 0 THEN RatInt(0) ELSE RatInt(Pi)
                  /\ epicycles[i].phase = IF i % 2 = 1 THEN RatInt(0) ELSE RatInt(Pi)

C9_Witness ==
    /\ op = "generate_fourier_epicycles"
    /\ concept_name = StrTriangleWave
    /\ n_terms = 5
    /\ Len(epicycles) = 3
    /\ epicycles[2].radius = Scalar(<<8, 9>>, 2)
    /\ epicycles[2].phase = RatInt(Pi)

\* The indexes of the epicycles with a radius other than 0.
NonTrivial == {i \in 1..Len(epicycles) : epicycles[i].radius.c[1] # 0}

\* C10 as stated: for n_terms = 6, the epicycle list built for a TaylorSeries
\* concept whose name contains "Sine" contains exactly 3 non-trivial terms,
\* with frequencies the odd powers 1, 3, 5 and phases 0, pi, 0.
C10_ThreeSineTerms ==
    (op = "generate_curve_from_concept" /\ TaylorSine /\ n_terms = 6) =>
        /\ Cardinality(NonTrivial) = 3
        /\ {epicycles[i].frequency : i \in NonTrivial} = {RatInt(1), RatInt(3), RatInt(5)}
        /\ \A i \in NonTrivial :
              epicycles[i].phase =
                  IF epicycles[i].frequency = RatInt(3) THEN RatInt(Pi) ELSE RatInt(0)

\* C10 as amended: for n_terms = 6, the epicycle list built for a
\* TaylorSeries concept whose name contains "Sine" (and not "Exponential")
\* contains exactly 6 terms, all non-trivial, with frequencies the odd powers
\* 1, 3, 5, 7, 9, 11, radii 2/power! and the alternating sign folded into
\* phases 0, pi, 0, pi, 0, pi.
C10_SixSineTerms ==
    (op = "generate_curve_from_concept" /\ TaylorSine /\ n_terms = 6) =>
        /\ Len(epicycles) = 6
        /\ NonTrivial = 1..6
        /\ \A i \in 1..Len(epicycles) :
              /\ epicycles[i].frequency = RatInt(2 * i - 1)
              /\ epicycles[i].radius = Scalar(RatNorm(2, Factorial(2 * i - 1)), 0)
              /\ epicycles[i].phase = IF i % 2 = 1 THEN RatInt(0) ELSE RatInt(Pi)

C10_Witness ==
    /\ op = "generate_curve_from_concept"
    /\ Category = StrTaylorSeries
    /\ concept_name = StrSineFunction
    /\ n_terms = 6
    /\ Len(epicycles) = 6
    /\ epicycles[3].frequency = RatInt(5)
    /\ epicycles[6].phase = RatInt(Pi)

\* C11 as stated: for every TaylorSeries family that generates epicycles
\* (sine: odd powers 2k+1; exponential: all powers k = 0, 1, 2, ...) and
\* every n_terms, the epicycle generated for a series term has frequency
\* equal to that term's power.  The i-th epicycle is the term k = i - 1.
C11_FrequencyIsPower ==
    (op = "generate_curve_from_concept") =>
        /\ TaylorSine =>
              \A i \in 1..Len(epicycles) :
                  epicycles[i].frequency = RatInt(2 * (i - 1) + 1)
        /\ TaylorExponential =>
              \A i \in 1..Len(epicycles) :
                  epicycles[i].frequency = RatInt(i - 1)

\* C11 as amended: the epicycle of the sine term of power 2k+1 (radius
\* 2/(2k+1)!) has frequency 2k+1, the term's power; the epicycle of the
\* exponential term of power k (radius 0.5/k!) has frequency k+1, one more
\* than the term's power; sine builds min(n_terms, 6) terms and exponential
\* min(n_terms, 8), k counting from 0.
C11_FrequencyOfTerm ==
    (op = "generate_curve_from_concept") =>
        /\ TaylorSine =>
              /\ Len(epicycles) = IF n_terms < 0 THEN 0 ELSE Min(n_terms, 6)
              /\ \A i \in 1..Len(epicycles) :
                    /\ epicycles[i].radius =
                          Scalar(RatNorm(2, Factorial(2 * (i - 1) + 1)), 0)
                    /\ epicycles[i].frequency = RatInt(2 * (i - 1) + 1)
        /\ TaylorExponential =>
              /\ Len(epicycles) = IF n_terms < 0 THEN 0 ELSE Min(n_terms, 8)
              /\ \A i \in 1..Len(epicycles) :
                    /\ epicycles[i].radius =
                          Scalar(RatNorm(1, 2 * Factorial(i - 1)), 0)
                    /\ epicycles[i].frequency = RatInt((i - 1) + 1)

C11_Witness ==
    /\ op = "generate_curve_from_concept"
    /\ TaylorExponential
    /\ n_terms = 9
    /\ Len(epicycles) = 8
    /\ epicycles[1].frequency = RatInt(1)
    /\ epicycles[8].frequency = RatInt(8)

UnitEpicycle == Epicycle(ScalarInt(1), RatInt(1), RatInt(0), 1)

\* C12: generate_curve_from_concept returns the documented default for an
\* unrecognised input: a ParametricCurves name matching neither "Lissajous"
\* nor "Epicycloid" gives the unit circle (one epicycle of radius 1,
\* frequency 1, phase 0), a TaylorSeries name matching neither "Exponential"
\* nor "Sine" gives the plain sine (the same single unit epicycle), and any
\* other category, a concept with no category or name field included, gives
\* the single default unit epicycle.
C12_Defaults ==
    (op = "generate_curve_from_concept") =>
        /\ (/\ Category = StrParametricCurves
            /\ ~Contains(StrLissajous, concept_name)
            /\ ~Contains(StrEpicycloid, concept_name)) =>
              /\ epicycles = <<UnitEpicycle>>
              /\ \A k \in 1..t_points :
                    /\ x_curve[k] = Real(Cos(t_grid[k]))
                    /\ y_curve[k] = Real(Sin(t_grid[k]))
        /\ (/\ Category = StrTaylorSeries
            /\ ~Contains(StrExponential, concept_name)
            /\ ~Contains(StrSine, concept_name)) =>
              /\ epicycles = <<UnitEpicycle>>
              /\ x_curve = t_grid
              /\ \A k \in 1..t_points : y_curve[k] = Real(Sin(t_grid[k]))
        /\ Category \notin {StrFourierSeries, StrParametricCurves, StrTaylorSeries} =>
              /\ epicycles = <<UnitEpicycle>>
              /\ x_curve = t_grid
              /\ \A k \in 1..t_points : y_curve[k] = Real(Sin(t_grid[k]))

C12_Witness ==
    /\ op = "generate_curve_from_concept"
    /\ concept = <<>>
    /\ t_points = 5
    /\ epicycles = <<UnitEpicycle>>
    /\ y_curve[2] = Real([c |-> RatInt(1), a |-> AtomOne])

\* The builder was asked for a term count of 0 or less in a series family,
\* or for a FourierSeries name that matches no keyword.
NothingToBuild ==
    \/ /\ FourierBuilt
       /\ \/ n_terms <= 0
          \/ /\ ~Contains(StrSquare, concept_name)
             /\ ~Contains(StrSawtooth, concept_name)
             /\ ~Contains(StrTriangle, concept_name)
    \/ /\ op = "generate_curve_from_concept"
       /\ TaylorExponential \/ TaylorSine
       /\ n_terms <= 0

\* C13 as stated: for a term count of 0 (or negative) in any series family,
\* and for a FourierSeries concept whose name matches none of "Square",
\* "Sawtooth", "Triangle" at any term count, the builder yields an empty
\* epicycle list; the sampled value axis is then identically 0 and still has
\* length t_points.
C13_EmptyListZeroCurve ==
    NothingToBuild =>
        /\ epicycles = <<>>
        /\ op = "generate_curve_from_concept" =>
              /\ Len(y_curve) = t_points
              /\ \A k \in 1..Len(y_curve) : y_curve[k] = Zero

\* C13 as amended: in those cases the builder yields an empty epicycle list
\* and the sampled value axis still has length t_points; the value axis is
\* identically 0 for FourierSeries, while for the TaylorSeries families it is
\* the closed form (exp(t - pi), never 0, for "Exponential"; sin(t) for
\* "Sine").
C13_EmptyList ==
    NothingToBuild =>
        /\ epicycles = <<>>
        /\ op = "generate_curve_from_concept" =>
              /\ Len(y_curve) = t_points
              /\ Category = StrFourierSeries =>
                    \A k \in 1..Len(y_curve) : y_curve[k] = Zero
              /\ TaylorExponential =>
                    \A k \in 1..Len(y_curve) :
                        y_curve[k] = Real(ExpShifted(t_grid[k])) /\ y_curve[k] # Zero
              /\ TaylorSine =>
                    \A k \in 1..Len(y_curve) : y_curve[k] = Real(Sin(t_grid[k]))

C13_Witness ==
    /\ op = "generate_curve_from_concept"
    /\ Category = StrFourierSeries
    /\ concept_name = StrCircle
    /\ n_terms = 5
    /\ t_points = 3
    /\ epicycles = <<>>
    /\ y_curve = <<Zero, Zero, Zero>>

\* C14: for ParametricCurves the returned epicycles are fixed constants,
\* whatever n_terms is: a name containing "Lissajous" yields exactly two arms
\* with frequencies 3 and 2, radii 1 and 1, phases pi/2 and 0; a name
\* containing "Epicycloid" (and not "Lissajous") yields exactly two arms,
\* radius 4 at frequency 1 with phase 0 and radius 1 at frequency 4 with
\* phase pi.
C14_ParametricConstants ==
    (op = "generate_curve_from_concept" /\ Category = StrParametricCurves) =>
        /\ Contains(StrLissajous, concept_name) =>
              /\ Len(epicycles) = 2
              /\ epicycles[1].radius = ScalarInt(1)
              /\ epicycles[1].frequency = RatInt(3)
              /\ epicycles[1].phase = RatInt(HalfPi)
              /\ epicycles[2].radius = ScalarInt(1)
              /\ epicycles[2].frequency = RatInt(2)
              /\ epicycles[2].phase = RatInt(0)
        /\ (Contains(StrEpicycloid, concept_name)
                /\ ~Contains(StrLissajous, concept_name)) =>
              /\ Len(epicycles) = 2
              /\ epicycles[1].radius = ScalarInt(4)
              /\ epicycles[1].frequency = RatInt(1)
              /\ epicycles[1].phase = RatInt(0)
              /\ epicycles[2].radius = ScalarInt(1)
              /\ epicycles[2].frequency = RatInt(4)
              /\ epicycles[2].phase = RatInt(Pi)

C14_Witness ==
    /\ op = "generate_curve_from_concept"
    /\ Category = StrParametricCurves
    /\ concept_name = StrEpicycloid
    /\ n_terms = 1
    /\ Len(epicycles) = 2
    /\ epicycles[2].frequency = RatInt(4)

\* The number a well-formed literal writes, 1 for an omitted one.
LitValue(text) ==
    CASE text = <<>> -> RatInt(1)
      [] text = LitHalf -> <<1, 2>>
      [] text = LitTwo -> RatInt(2)
      [] text = LitThree -> RatInt(3)

WellFormed(text) == text \in {<<>>, LitHalf, LitTwo, LitThree}

WellFormedTerm(term) == WellFormed(term.coeff) /\ WellFormed(term.freq)

\* The parser was called on an expression made of the terms alone.
TermsOnly == custom_called /\ equation_str = EquationText(custom_terms)

StrClaimedEquation ==
    <<"s", "i", "n", "(", "t", ")", " ", "+", " ",
      "0", ".", "5", "*", "s", "i", "n", "(", "3", "*", "t", ")">>

\* C16: for an expression made of additive terms c*sin(f*t) with unsigned
\* numeric literals (c and f each optional) and max_terms at least the number
\* of terms, generate_custom_epicycles returns exactly one epicycle per term,
\* in textual order, with radius c (1.0 when omitted), frequency f (1.0 when
\* omitted) and phase 0; "sin(t) + 0.5*sin(3*t)" with max_terms 10 yields
\* exactly {1.0, 1.0, 0} then {0.5, 3.0, 0}.
C16_SineTerms ==
    /\ (/\ TermsOnly
        /\ Len(custom_terms) >= 1
        /\ custom_n_terms >= Len(custom_terms)
        /\ \A i \in 1..Len(custom_terms) :
              /\ custom_terms[i].fn = StrSin
              /\ ~custom_terms[i].negated
              /\ WellFormedTerm(custom_terms[i])) =>
          /\ ~custom_raised
          /\ Len(custom_epicycles) = Len(custom_terms)
          /\ \A i \in 1..Len(custom_terms) :
                /\ custom_epicycles[i].radius = Scalar(LitValue(custom_terms[i].coeff), 0)
                /\ custom_epicycles[i].frequency = LitValue(custom_terms[i].freq)
                /\ custom_epicycles[i].phase = RatInt(0)
    /\ (custom_called /\ equation_str = StrClaimedEquation /\ custom_n_terms = 10) =>
          custom_epicycles =
              <<Epicycle(ScalarInt(1), RatInt(1), RatInt(0), 1),
                Epicycle(Scalar(<<1, 2>>, 0), RatInt(3), RatInt(0), 1)>>

C16_Witness ==
    /\ custom_called
    /\ equation_str = StrClaimedEquation
    /\ custom_n_terms = 10
    /\ Len(custom_epicycles) = 2
    /\ custom_epicycles[2].radius = Scalar(<<1, 2>>, 0)
    /\ custom_epicycles[2].frequency = RatInt(3)

\* The expression holds no match of the sin pattern or of the cos pattern.
NoMatch ==
    /\ custom_called
    /\ FindAll(equation_str, 1, StrSin) = <<>>
    /\ FindAll(equation_str, 1, StrCos) = <<>>

\* C17 as stated: for every expression containing no sin/cos match (the
\* empty string and "garbage" included) and every max_terms >= 0,
\* generate_custom_epicycles returns exactly one default epicycle {radius
\* 1.0, frequency 1.0, phase 0, direction +1}.
C17_DefaultForEveryCount ==
    (NoMatch /\ custom_n_terms >= 0) =>
        /\ ~custom_raised
        /\ custom_epicycles = <<UnitEpicycle>>

\* C17 as amended: for such an expression and every max_terms >= 1 the
\* result is exactly the one default epicycle; for max_terms = 0 the
\* truncation to max_terms drops the default too and the result is empty.
C17_DefaultEpicycle ==
    NoMatch =>
        /\ ~custom_raised
        /\ custom_n_terms >= 1 => custom_epicycles = <<UnitEpicycle>>
        /\ custom_n_terms = 0 => custom_epicycles = <<>>

C17_Witness ==
    /\ custom_called
    /\ equation_str = StrGarbage
    /\ custom_n_terms = 10
    /\ ~custom_raised
    /\ custom_epicycles = <<UnitEpicycle>>

\* C18: the sign of a term's coefficient is folded into its phase while the
\* radius is the absolute value: a sine term with a negative coefficient
\* (e.g. "-0.5*sin(t)") gets phase pi, a cosine term gets phase pi/2, and a
\* cosine term with a negative coefficient gets phase 3*pi/2.  Stated for an
\* expression of one well-formed term.
C18_SignFoldedIntoPhase ==
    (/\ TermsOnly
     /\ Len(custom_terms) = 1
     /\ WellFormedTerm(custom_terms[1])
     /\ custom_n_terms >= 1) =>
        LET term == custom_terms[1]
        IN  /\ ~custom_raised
            /\ Len(custom_epicycles) = 1
            /\ custom_epicycles[1].radius = Scalar(LitValue(term.coeff), 0)
            /\ custom_epicycles[1].phase =
                  IF term.fn = StrSin
                  THEN IF term.negated THEN RatInt(Pi) ELSE RatInt(0)
                  ELSE IF term.negated THEN RatNorm(3 * Pi, 2) ELSE RatInt(HalfPi)

\* C19: if a matched term carries a numeric literal that does not parse as a
\* number ("1.2.3", "."), generate_custom_epicycles does not raise and still
\* returns the epicycles of the other terms.
C19_MalformedTermOnly ==
    (/\ TermsOnly
     /\ \E i \in 1..Len(custom_terms) : ~WellFormedTerm(custom_terms[i])) =>
        /\ ~custom_raised
        /\ custom_n_terms >= Len(custom_terms) =>
              Len(custom_epicycles) >=
                  Cardinality({i \in 1..Len(custom_terms) :
                                  WellFormedTerm(custom_terms[i])})

\* The radius c / pi^k is not negative.
NonNegative(radius) == ~RatLess(radius.c, RatInt(0))

WellFormedEpicycles(list) ==
    \A i \in 1..Len(list) :
        /\ NonNegative(list[i].radius)
        /\ list[i].direction \in {1, -1}

\* C15: every epicycle produced by any producer (generate_fourier_epicycles,
\* every branch of generate_curve_from_concept, generate_custom_epicycles)
\* has radius >= 0 and direction in {+1, -1}, and this still holds after the
\* canvas applies its amplitude/frequency/phase scaling (amplitude scale in
\* [0.1, 5.0]).
C15_RadiusAndDirection ==
    /\ op \in {"generate_fourier_epicycles", "generate_curve_from_concept"} =>
          WellFormedEpicycles(epicycles)
    /\ WellFormedEpicycles(custom_epicycles)
    /\ WellFormedEpicycles(base_epicycles)
    /\ WellFormedEpicycles(canvas_epicycles)

C15_Witness ==
    /\ Truthy(current_concept)
    /\ current_concept[1].name = StrEpicycloid
    /\ amplitude_scale = <<1, 10>>
    /\ Len(canvas_epicycles) = 2
    /\ base_epicycles[1].radius = ScalarInt(4)
    /\ canvas_epicycles[1].radius = Scalar(<<2, 5>>, 0)
    /\ canvas_epicycles[1].direction = 1

\* An option of the dropdown has been parsed.
OptionParsed == "parse_dropdown_selection" \in loader_calls

\* The parse read the catalog get_dropdown_options had read.
SameCatalog == options_file = catalog_file

\* The concept parsed, re-formatted by the display rule, is the selection.
RoundTrip == parsed # <<>> /\ Option(parsed) = selection

\* C20 as stated: for every catalog (any mapping from category names to
\* lists of named concepts) and every index k,
\* parse_dropdown_selection(get_dropdown_options()[k]) returns a concept
\* whose category and name, re-formatted by the same display rule, reproduce
\* get_dropdown_options()[k] exactly.
C20_RoundTripEveryCatalog == (OptionParsed /\ SameCatalog) => RoundTrip

\* No two concepts of the catalog have the same name.
UniqueNames(file) ==
    LET all_concepts == GetAllConceptsFlat(file)
    IN  \A i, j \in 1..Len(all_concepts) :
            all_concepts[i].name = all_concepts[j].name => i = j

\* No category name of the catalog contains a "-".
PlainCategories(file) ==
    LET concepts_data == LoadVisualizationConcepts(file)
    IN  \A i \in 1..Len(concepts_data) : ~Contains(<<"-">>, concepts_data[i].category)

\* C20 as amended: the round trip holds for every catalog in which concept
\* names are unique and no category name contains a "-", and every index k.
C20_RoundTrip ==
    (/\ OptionParsed
     /\ SameCatalog
     /\ UniqueNames(catalog_file)
     /\ PlainCategories(catalog_file)) =>
        RoundTrip

C20_Witness ==
    /\ OptionParsed
    /\ SameCatalog
    /\ UniqueNames(catalog_file)
    /\ PlainCategories(catalog_file)
    /\ Len(dropdown_options) = 2
    /\ selection = <<"F", "o", "u", "r", "i", "e", "r", " ", "S", "e", "r", "i", "e", "s",
                     " ", "-", " ", "a", " ", "-", " ", "b">>
    /\ parsed = [name |-> StrDashedName, category |-> StrFourierSeries]

\* The display text the documentation gives for a category name.
DisplayOf(category) ==
    CASE category = StrFourierSeries ->
             <<"F", "o", "u", "r", "i", "e", "r", " ", "S", "e", "r", "i", "e", "s">>
      [] category = StrParametricCurves ->
             <<"P", "a", "r", "a", "m", "e", "t", "r", "i", "c", " ",
               "C", "u", "r", "v", "e", "s">>
      [] category = StrDashedCategory -> StrDashedCategory

\* The (category, concept) places of a catalog.
Places(file) ==
    LET data == LoadVisualizationConcepts(file)
    IN  {<<i, j>> \in (1..Len(data)) \X (1..MaxLen + 1) :
            j <= Len(data[i].concepts)}

\* The display string documented for the concept at a place.
Documented(file, place) ==
    LET data == LoadVisualizationConcepts(file)
    IN  DisplayOf(data[place[1]].category) \o <<" ", "-", " ">>
            \o data[place[1]].concepts[place[2]].name

\* C21: get_dropdown_options returns exactly one display string per concept
\* of the catalog, each formatted "{category} - {name}" where the category
\* has "Series" replaced by " Series" and "Curves" by " Curves" for display
\* only (the stored category of a concept is unchanged), and the returned
\* sequence is sorted lexicographically ascending.
C21_DropdownOptions ==
    /\ "get_dropdown_options" \in loader_calls =>
          /\ Len(dropdown_options) = Cardinality(Places(options_file))
          /\ \A place \in Places(options_file) :
                Cardinality({k \in 1..Len(dropdown_options) :
                                dropdown_options[k] = Documented(options_file, place)})
                    = Cardinality({other \in Places(options_file) :
                                      Documented(options_file, other)
                                          = Documented(options_file, place)})
          /\ \A k \in 1..(Len(dropdown_options) - 1) :
                ~StrLess(dropdown_options[k + 1], dropdown_options[k])
    /\ (OptionParsed /\ parsed # <<>>) =>
          \E place \in Places(catalog_file) :
              LET data == LoadVisualizationConcepts(catalog_file)
              IN  /\ parsed.category = data[place[1]].category
                  /\ parsed.name = data[place[1]].concepts[place[2]].name

C21_Witness ==
    /\ loader_calls = {"get_dropdown_options"}
    /\ options_file.status = "ok"
    /\ Len(options_file.data) = 2
    /\ options_file.data[1].category = StrParametricCurves
    /\ options_file.data[2].category = StrFourierSeries
    /\ Len(dropdown_options) = 3
    /\ dropdown_options[1] = DisplayOf(StrFourierSeries) \o StrSeparator \o StrSquareWave
    /\ dropdown_options[3] = DisplayOf(StrParametricCurves) \o StrSeparator \o StrDashedName

\* C22: a failure at the catalog boundary is reported to the caller of
\* load_visualization_concepts as an outcome that distinguishes "resource
\* not found" from "resource unreadable/corrupt": the value returned for a
\* missing file differs from the value returned for a malformed file.
C22_FailuresDistinguished ==
    {"missing", "malformed"} \subseteq DOMAIN load_outcomes =>
        load_outcomes["missing"] # load_outcomes["malformed"]

\* The catalog file could not be loaded.
LoadFailed == catalog_file.status \in {"missing", "malformed"}

\* C23: after a failed catalog load (file missing or JSON malformed) the
\* core keeps operating against an empty catalog: get_dropdown_options
\* returns the empty sequence, and get_concept_by_name and
\* parse_dropdown_selection return not-found (the empty concept) for every
\* input.
C23_EmptyCatalog ==
    /\ (loader_calls = {"get_dropdown_options"} /\ options_file.status # "ok") =>
          dropdown_options = <<>>
    /\ (loader_calls = {"get_concept_by_name"} /\ LoadFailed) => lookup_result = <<>>
    /\ (loader_calls = {"parse_text"} /\ LoadFailed) => parsed = <<>>
    /\ (OptionParsed /\ LoadFailed) => parsed = <<>>

C23_Witness ==
    /\ OptionParsed
    /\ options_file.status = "ok"
    /\ catalog_file.status = "malformed"
    /\ selection = DisplayOf(StrFourierSeries) \o StrSeparator \o StrSquareWave
    /\ parsed = <<>>

\* C24: the catalog is populated once at startup and is read-only
\* afterwards: across any sequence of get_dropdown_options,
\* get_concept_by_name and parse_dropdown_selection calls the catalog
\* resource is not read again, so every call observes the same catalog
\* contents even if the underlying resource changes between calls.  Stated
\* for the parse of a dropdown option: its result is the one the catalog
\* that get_dropdown_options read gives.
C24_CatalogReadOnce ==
    OptionParsed => parsed = ParseDropdownSelection(options_file, selection)

FirstResult ==
    [x_curve |-> first_call.x_curve, y_curve |-> first_call.y_curve,
     epicycles |-> first_epicycles]

\* The result for the concept of the given category whose name is the
\* keyword alone (the empty name: no keyword).
BranchOf(category, keyword) ==
    GenerateCurveFromConcept([name |-> keyword, category |-> category],
                             build_n_terms, CanvasTPoints)

\* C26: dispatch on the concept name is by case-sensitive substring
\* containment tested in a fixed order, and the first keyword that matches
\* decides: within FourierSeries "Square" wins over "Sawtooth" which wins
\* over "Triangle"; within ParametricCurves "Lissajous" wins over
\* "Epicycloid"; within TaylorSeries "Exponential" wins over "Sine"; a name
\* that contains a keyword only in a different letter case ("Cosine",
\* "square") does not match it.
C26_DispatchOrder ==
    build_step = "first" =>
        LET name == build_concept.name
            category == build_concept.category
            Has(keyword) == Contains(keyword, name)
        IN  /\ category = StrFourierSeries =>
                 /\ Has(StrSquare) => FirstResult = BranchOf(category, StrSquare)
                 /\ (~Has(StrSquare) /\ Has(StrSawtooth)) =>
                        FirstResult = BranchOf(category, StrSawtooth)
                 /\ (~Has(StrSquare) /\ ~Has(StrSawtooth) /\ Has(StrTriangle)) =>
                        FirstResult = BranchOf(category, StrTriangle)
                 /\ name = StrLowerSquare => FirstResult = BranchOf(category, StrEmpty)
            /\ category = StrParametricCurves =>
                 /\ Has(StrLissajous) => FirstResult = BranchOf(category, StrLissajous)
                 /\ (~Has(StrLissajous) /\ Has(StrEpicycloid)) =>
                        FirstResult = BranchOf(category, StrEpicycloid)
            /\ category = StrTaylorSeries =>
                 /\ Has(StrExponential) => FirstResult = BranchOf(category, StrExponential)
                 /\ (~Has(StrExponential) /\ Has(StrSine)) =>
                        FirstResult = BranchOf(category, StrSine)
                 /\ name = StrCosineFunction => FirstResult = BranchOf(category, StrEmpty)

C26_Witness ==
    /\ build_step = "first"
    /\ build_concept = [name |-> StrSawtoothSquare, category |-> StrFourierSeries]
    /\ build_n_terms = 3
    /\ Len(first_epicycles) = 2
    /\ first_epicycles[2].frequency = RatInt(3)

\* The terms of the expression whose function is fn, in textual order.
TermsOf(fn) == SelectSeq(custom_terms, LAMBDA term : term.fn = fn)

\* The sine terms of the expression followed by its cosine terms.
SinesThenCosines == TermsOf(StrSin) \o TermsOf(StrCos)

\* The epicycle is the one of the term: its radius and frequency, and phase
\* 0 for a sine term, pi/2 for a cosine term (a negated term apart).
EpicycleOfTerm(epicycle, term) ==
    /\ epicycle.radius = Scalar(LitValue(term.coeff), 0)
    /\ epicycle.frequency = LitValue(term.freq)
    /\ ~term.negated =>
          epicycle.phase = (IF term.fn = StrSin THEN RatInt(0) ELSE RatInt(HalfPi))

\* C27: generate_custom_epicycles returns all sine matches in textual order
\* followed by all cosine matches in textual order, and truncation keeps the
\* first max_terms entries of that sequence; hence when max_terms is smaller
\* than the number of matches, cosine terms are dropped before any sine term
\* regardless of where they appear in the expression, and the result never
\* has more than max_terms entries.  Stated for the calls that return and a
\* term count max_terms >= 0.
C27_SinesThenCosines ==
    (custom_called /\ ~custom_raised /\ custom_n_terms >= 0) =>
        /\ Len(custom_epicycles) <= custom_n_terms
        /\ (/\ custom_terms # <<>>
            /\ \A i \in 1..Len(custom_terms) : WellFormedTerm(custom_terms[i])) =>
              /\ Len(custom_epicycles) = Min(custom_n_terms, Len(custom_terms))
              /\ \A i \in 1..Len(custom_epicycles) :
                    EpicycleOfTerm(custom_epicycles[i], SinesThenCosines[i])
              /\ \A i \in 1..Len(custom_terms) :
                    (custom_terms[i].fn = StrSin
                        /\ Len(custom_epicycles) < Len(TermsOf(StrSin))) =>
                       \A j \in 1..Len(custom_epicycles) :
                           custom_epicycles[j].phase = RatInt(0)

C27_Witness ==
    /\ custom_called
    /\ ~custom_raised
    /\ custom_n_terms = 1
    /\ custom_terms = <<Term(FALSE, <<>>, TRUE, StrCos, <<>>),
                        Term(FALSE, LitHalf, TRUE, StrSin, LitThree)>>
    /\ custom_epicycles = <<Epicycle(Scalar(<<1, 2>>, 0), RatInt(3), RatInt(0), 1)>>

\* The canvas holds a concept of the catalog / a custom concept.
CatalogConceptShown ==
    Truthy(current_concept) /\ Get(current_concept[1], "category", StrEmpty) # StrCustom

CustomConceptShown ==
    Truthy(current_concept) /\ Get(current_concept[1], "category", StrEmpty) = StrCustom

\* The epicycles generated for the concept shown and the term count the
\* window passed with it.
GeneratedForTerms ==
    GenerateCurveFromConcept(current_concept[1], installed_n_terms,
                             CanvasTPoints).epicycles

\* The epicycles on the canvas are the given ones under the scales held.
ShownScaled(given) ==
    /\ Len(canvas_epicycles) = Len(given)
    /\ \A i \in 1..Len(given) :
          canvas_epicycles[i] =
              Adjusted(given[i], amplitude_scale, frequency_scale, phase_offset)

\* C28: after set_concept_data(concept, n), any sequence of update_parameters
\* calls leaves the number of epicycles on the canvas equal to the number
\* generated for n terms; scaling changes only radius, frequency and phase
\* (radius = base radius * amplitude scale, not compounded across calls).
C28_TermCountKept ==
    CatalogConceptShown => ShownScaled(GeneratedForTerms)

\* The part of C28 about the scaling alone: the epicycles shown are the
\* producer's for the concept and the number of epicycles held, scaled once.
C28_ScaledOnce ==
    CatalogConceptShown =>
        /\ ShownScaled(base_epicycles)
        /\ \A i \in 1..Len(canvas_epicycles) :
              canvas_epicycles[i].direction = base_epicycles[i].direction

\* The epicycles parsed from the custom equation shown, for the term count
\* the window passed with it.
ParsedForTerms ==
    GenerateCustomEpicycles(
        Get(current_concept[1], "custom_function", StrSinT),
        installed_n_terms).epicycles

\* C29: after apply_custom_concept, a subsequent update_parameters (any
\* slider or checkbox change) keeps the canvas showing the epicycles parsed
\* from the custom equation, scaled by the new parameters, rather than
\* replacing them.  The canvas shows them as parsed until the first
\* update_parameters.
C29_CustomEpicyclesKept ==
    CustomConceptShown =>
        \/ canvas_epicycles =
              [i \in 1..Len(ParsedForTerms) |-> OnCanvas(ParsedForTerms[i])]
        \/ ShownScaled(ParsedForTerms)

\* C30: in every reachable state of the canvas, after any sequence of
\* set_concept_data, update_parameters, apply_custom_concept, animate_frame
\* (its time wrap-around included), reset_animation and save_gif, the number
\* of individual trace buffers equals the number of epicycles, so
\* animate_frame never appends to a missing trace index.
C30_TraceBuffers ==
    /\ Len(individual_traces) = Len(canvas_epicycles)
    /\ ~animate_raised

\* A frame has just wrapped the time of a two-epicycle animation.
C30_Witness ==
    /\ wrapped
    /\ is_playing
    /\ show_individual_traces
    /\ Len(canvas_epicycles) = 2
    /\ individual_traces = <<<<>>, <<>>>>
    /\ current_time = TimeZero

====
